---------------------------- MODULE Spec2Model ----------------------------
(***************************************************************************)
(* Model of the resticlib C boundary (handle registry, transfer buffers,   *)
(* error taxonomy) and of the path selection filter of the Go library.     *)
(*                                                                         *)
(* Go strings and C strings are sequences of one-character tokens; NUL is  *)
(* the C terminator.  A string literal of the source is a one-token        *)
(* sequence holding the literal.                                           *)
(***************************************************************************)
EXTENDS Integers, Sequences, FiniteSets, TLC

(***************************************************************************)
(* Bounds of the model.                                                    *)
(***************************************************************************)
\* width of the C int of the boundary, scaled down from 32 bits; 8 bits is
\* the smallest width that still holds every error code (-99)
CIntBits == 8
\* number of handles the sequential boundary specification issues
MaxRepoID == 2
\* C strings the caller may hold besides one set of snapshot arrays
MaxStrings == 1
\* longest snapshot list the storage collaborator returns
MaxSnaps == 2
\* sessions open at a time while the handle counter runs up to the C int limit
MaxLive == 1
\* longest include list and longest exclude list of the path filter
MaxPatterns == 2
\* number of snapshot files the storage lists
MaxStored == 3
\* largest KeepLast of a retention policy
MaxKeep == 1
\* capacity of an error stream of Check, scaled down from 100
ErrChanCap == 2
\* errors a checker producer sends on one stream
MaxErrors == 3

(***************************************************************************)
(* Error codes                                                             *)
(***************************************************************************)
RESTIC_OK == 0
RESTIC_ERROR_INVALID_PARAMS == -1
RESTIC_ERROR_REPO_NOT_FOUND == -2
RESTIC_ERROR_INVALID_PASSWORD == -3
RESTIC_ERROR_BACKUP_FAILED == -4
RESTIC_ERROR_RESTORE_FAILED == -5
RESTIC_ERROR_UNKNOWN == -99

ErrorCodes ==
    { RESTIC_ERROR_INVALID_PARAMS, RESTIC_ERROR_REPO_NOT_FOUND,
      RESTIC_ERROR_INVALID_PASSWORD, RESTIC_ERROR_BACKUP_FAILED,
      RESTIC_ERROR_RESTORE_FAILED, RESTIC_ERROR_UNKNOWN }

(***************************************************************************)
(* Integer types of the boundary.  ResticRepo is a uintptr, twice as wide  *)
(* as the C int the boundary returns and receives.                         *)
(***************************************************************************)
UPtrBits == 2 * CIntBits

CIntMin == -(2 ^ (CIntBits - 1))

CIntMax == 2 ^ (CIntBits - 1) - 1

CIntRange == CIntMin .. CIntMax

\* C.int(repoID): the conversion keeps the low CIntBits bits, two's complement
ToCInt(x) ==
    LET m == x % (2 ^ CIntBits)
    IN  IF m > CIntMax THEN m - 2 ^ CIntBits ELSE m

\* ResticRepo(repo_id): sign extension of the C int to the uintptr key
ToResticRepo(h) == h % (2 ^ UPtrBits)

\* nextRepoID++ on a uintptr
IncRepoID(x) == (x + 1) % (2 ^ UPtrBits)

NULL == 0

NUL == "NUL"

VARIABLES
    nextRepoID,     \* the handle counter
    repositories,   \* the registry: ResticRepo key -> session
    sessions,       \* every session created so far: session -> [closes]
    issued,         \* history: the values successful init/open calls returned
    closedHandles,  \* history: the handles restic_close returned RESTIC_OK for
    heap,           \* the C heap: address -> block
    held,           \* what the foreign caller owns: strings and snapshot arrays
    lastCall,       \* the last boundary call: arguments, result, effects
    crashed,        \* a fault escaped the boundary: the process is gone
    callers,        \* concurrent callers: position and locals of each
    mapWriting,     \* the Go map's hashWriting flag
    probe           \* input and output of a pure function under check

vars ==
    << nextRepoID, repositories, sessions, issued, closedHandles, heap, held,
       lastCall, crashed, callers, mapWriting, probe >>

registryVars == << nextRepoID, repositories, sessions, issued, closedHandles >>

memoryVars == << heap, held >>

concVars == << callers, mapWriting >>


(***************************************************************************)
(* Values of the model                                                     *)
(***************************************************************************)
\* the return slot of a call that faulted instead of returning
NoReturn == CIntMin - 1

NoOut == [ptr |-> NULL, ids |-> NULL, times |-> NULL, hostnames |-> NULL,
          count |-> 0]

\* the record of one boundary call
Call(op, h, ret, s) ==
    [op |-> op, handle |-> h, ret |-> ret, fault |-> FALSE, session |-> s,
     arg |-> <<>>, out |-> NoOut, snaps |-> <<>>, freed |-> <<>>,
     allocs |-> {}]

Fault(op, h, s) == [Call(op, h, NoReturn, s) EXCEPT !.fault = TRUE]

NoCall == Call("none", 0, RESTIC_OK, 0)

MapSet(m, k, v) ==
    [x \in DOMAIN m \cup {k} |-> IF x = k THEN v ELSE m[x]]

MapDelete(m, k) == [x \in DOMAIN m \ {k} |-> m[x]]

Range(s) == { s[i] : i \in DOMAIN s }

(***************************************************************************)
(* The handle registry: restic_init, restic_open, restic_close             *)
(***************************************************************************)
\* the null checks on repo_url, backend and password
InvalidInitArgs(nulls) ==
    "repo_url" \in nulls \/ "backend" \in nulls \/ "password" \in nulls

InitArgNulls == { {}, {"repo_url"}, {"backend"}, {"password"} }

\* repoID := nextRepoID; nextRepoID++; repositories[repoID] = repo;
\* return C.int(repoID)
Register(op) ==
    LET repoID == nextRepoID
        repo == Len(sessions) + 1
    IN  /\ nextRepoID' = IncRepoID(nextRepoID)
        /\ repositories' = MapSet(repositories, repoID, repo)
        /\ sessions' = Append(sessions, [closes |-> 0])
        /\ issued' = Append(issued, ToCInt(repoID))
        /\ lastCall' = Call(op, 0, ToCInt(repoID), 0)

\* the body of restic_init and restic_open with the counter advanced before
\* the library call, whether or not it succeeds
OpenOrInitCountsFailure(op, failure, cap, live, nulls, ok) ==
    /\ ~crashed
    /\ IF InvalidInitArgs(nulls)
       THEN /\ lastCall' = Call(op, 0, RESTIC_ERROR_INVALID_PARAMS, 0)
            /\ UNCHANGED registryVars
       ELSE IF ~ok
       THEN /\ nextRepoID <= cap
            /\ nextRepoID' = IncRepoID(nextRepoID)
            /\ lastCall' = Call(op, 0, failure, 0)
            /\ UNCHANGED << repositories, sessions, issued, closedHandles >>
       ELSE /\ nextRepoID <= cap
            /\ Cardinality(DOMAIN repositories) < live
            /\ Register(op)
            /\ UNCHANGED closedHandles
    /\ UNCHANGED << memoryVars, crashed, concVars, probe >>

\* one body for restic_init and restic_open, which differ in the library
\* call they make and in the error code of its failure
OpenOrInit(op, failure, cap, live, nulls, ok) ==
    /\ ~crashed
    /\ IF InvalidInitArgs(nulls)
       THEN /\ lastCall' = Call(op, 0, RESTIC_ERROR_INVALID_PARAMS, 0)
            /\ UNCHANGED registryVars
       ELSE IF ~ok
       THEN /\ lastCall' = Call(op, 0, failure, 0)
            /\ UNCHANGED registryVars
       ELSE /\ nextRepoID <= cap
            /\ Cardinality(DOMAIN repositories) < live
            /\ Register(op)
            /\ UNCHANGED closedHandles
    /\ UNCHANGED << memoryVars, crashed, concVars, probe >>

restic_init(cap, live, nulls, ok) ==
    OpenOrInit("init", RESTIC_ERROR_REPO_NOT_FOUND, cap, live, nulls, ok)

restic_open(cap, live, nulls, ok) ==
    OpenOrInit("open", RESTIC_ERROR_INVALID_PASSWORD, cap, live, nulls, ok)

\* the close with its map delete left out
UnregisterKeepsEntry(repo_id) ==
    LET key == ToResticRepo(repo_id)
        repo == repositories[key]
    IN  /\ sessions' = [sessions EXCEPT ![repo].closes = @ + 1]
        /\ repositories' = repositories
        /\ closedHandles' = closedHandles \cup {repo_id}
        /\ lastCall' = Call("close", repo_id, RESTIC_OK, repo)

\* repo.Close(); delete(repositories, ResticRepo(repo_id))
Unregister(repo_id) ==
    LET key == ToResticRepo(repo_id)
        repo == repositories[key]
    IN  /\ sessions' = [sessions EXCEPT ![repo].closes = @ + 1]
        /\ repositories' = MapDelete(repositories, key)
        /\ closedHandles' = closedHandles \cup {repo_id}
        /\ lastCall' = Call("close", repo_id, RESTIC_OK, repo)

restic_close(repo_id) ==
    /\ ~crashed
    /\ IF ToResticRepo(repo_id) \notin DOMAIN repositories
       THEN /\ lastCall' = Call("close", repo_id, RESTIC_ERROR_INVALID_PARAMS, 0)
            /\ UNCHANGED << repositories, sessions, closedHandles >>
       ELSE Unregister(repo_id)
    /\ UNCHANGED << nextRepoID, issued, memoryVars, crashed, concVars, probe >>

(***************************************************************************)
(* The C heap and the transfer encoding                                    *)
(***************************************************************************)
HeapSize == 3 + 3 * MaxSnaps + MaxStrings

FreeBlock == [kind |-> "free", data |-> <<>>]

FreeCells(h) == { a \in DOMAIN h : h[a].kind = "free" }

\* C.malloc: a cell that is not in use (the lowest one)
Malloc(h) == CHOOSE a \in FreeCells(h) : \A b \in FreeCells(h) : a <= b

\* C.CString(s): a fresh copy of the bytes of s followed by the terminator
CString(h, s) ==
    [h EXCEPT ![Malloc(h)] = [kind |-> "str", data |-> Append(s, NUL)]]

\* the bytes of a C string up to its terminator
RECURSIVE UntilNUL(_)
UntilNUL(bytes) ==
    IF bytes = <<>> \/ Head(bytes) = NUL
    THEN <<>>
    ELSE <<Head(bytes)>> \o UntilNUL(Tail(bytes))

\* what the foreign caller reads at a char*: std::string(p), or "" at NULL
GoString(h, p) == IF p = NULL THEN <<>> ELSE UntilNUL(h[p].data)

\* the three index arrays of restic_list_snapshots, count pointers each
MallocArrays(h, count) ==
    LET ids == Malloc(h)
        h1 == [h EXCEPT ![ids] =
                  [kind |-> "arr", data |-> [i \in 1 .. count |-> NULL]]]
        times == Malloc(h1)
        h2 == [h1 EXCEPT ![times] =
                  [kind |-> "arr", data |-> [i \in 1 .. count |-> NULL]]]
        hostnames == Malloc(h2)
        h3 == [h2 EXCEPT ![hostnames] =
                  [kind |-> "arr", data |-> [i \in 1 .. count |-> NULL]]]
    IN  [heap |-> h3, ids |-> ids, times |-> times, hostnames |-> hostnames]

\* the stores with the time and the hostname crossed
StoreSnapshotCrossed(h, arrays, i, snapshot) ==
    LET pid == Malloc(h)
        h1 == CString(h, snapshot.ID)
        ptime == Malloc(h1)
        h2 == CString(h1, snapshot.Time)
        phost == Malloc(h2)
        h3 == CString(h2, snapshot.Hostname)
    IN  [h3 EXCEPT ![arrays.ids].data[i] = pid,
                   ![arrays.times].data[i] = phost,
                   ![arrays.hostnames].data[i] = ptime]

\* cIds[i] = C.CString(ID); cTimes[i] = ...; cHostnames[i] = ...
StoreSnapshot(h, arrays, i, snapshot) ==
    LET pid == Malloc(h)
        h1 == CString(h, snapshot.ID)
        ptime == Malloc(h1)
        h2 == CString(h1, snapshot.Time)
        phost == Malloc(h2)
        h3 == CString(h2, snapshot.Hostname)
    IN  [h3 EXCEPT ![arrays.ids].data[i] = pid,
                   ![arrays.times].data[i] = ptime,
                   ![arrays.hostnames].data[i] = phost]

\* the loop over the snapshots, from index i on
RECURSIVE StoreSnapshots(_, _, _, _)
StoreSnapshots(h, arrays, snapshots, i) ==
    IF i > Len(snapshots)
    THEN h
    ELSE StoreSnapshots(StoreSnapshot(h, arrays, i, snapshots[i]),
                        arrays, snapshots, i + 1)

\* C.free of one cell, logged
FreeCell(st, a) ==
    [heap |-> [st.heap EXCEPT ![a] = FreeBlock], freed |-> Append(st.freed, a)]

\* for i := 0; i < count; i++ { if cArr[i] != nil { C.free(cArr[i]) } }
RECURSIVE FreeElements(_, _, _, _)
FreeElements(st, arr, count, i) ==
    IF i > count
    THEN st
    ELSE LET p == st.heap[arr].data[i]
         IN  FreeElements(IF p # NULL THEN FreeCell(st, p) ELSE st,
                          arr, count, i + 1)

\* the index array released before the strings it points to
FreeArrayIndexFirst(st, arr, count) ==
    IF arr = NULL
    THEN st
    ELSE LET body == FreeElements(st, arr, count, 1)
         IN  [heap |-> [body.heap EXCEPT ![arr] = FreeBlock],
              freed |-> st.freed \o << arr >> \o
                        SubSeq(body.freed, Len(st.freed) + 1, Len(body.freed))]

\* if arr != nil { free each element; C.free(arr) }
FreeArray(st, arr, count) ==
    IF arr = NULL THEN st ELSE FreeCell(FreeElements(st, arr, count, 1), arr)

\* the body of restic_free_snapshot_arrays
FreeSnapshotArrays(h, ids, times, hostnames, count) ==
    FreeArray(FreeArray(FreeArray([heap |-> h, freed |-> <<>>],
                                  ids, count),
                        times, count),
              hostnames, count)

(***************************************************************************)
(* What the foreign caller passes and owns                                 *)
(***************************************************************************)
\* a char* argument: NULL, or a C string with the given contents
CStr(s) == [null |-> FALSE, str |-> s]

NullStr == [null |-> TRUE, str |-> <<>>]

\* C.GoString(p): the empty string at a nil pointer
CGoString(p) == IF p.null THEN <<>> ELSE p.str

\* a char** argument with its count: NULL, or an array of char*
CArr(elems, count) == [null |-> FALSE, elems |-> elems, count |-> count]

NullArr(count) == [null |-> TRUE, elems |-> <<>>, count |-> count]

PathsArgs ==
    { NullArr(1),
      CArr(<< CStr(<<"/", "d">>) >>, 1),
      CArr(<< CStr(<<"/", "d">>) >>, 0),
      CArr(<< CStr(<<"/", "d">>), NullStr >>, 2) }

TagsArgs ==
    { NullArr(0),
      NullArr(1),
      CArr(<< CStr(<<"t">>) >>, 1),
      CArr(<< NullStr >>, 1) }

\* cArr[:count:count] converted element by element with C.GoString
GoSlice(arr) == [i \in 1 .. arr.count |-> CGoString(arr.elems[i])]

\* a C string the caller owns
HeldString(p) ==
    [kind |-> "str", ptr |-> p, ids |-> NULL, times |-> NULL,
     hostnames |-> NULL, count |-> 0, allocs |-> {p}]

\* the three arrays of one restic_list_snapshots call the caller owns
HeldArrays(out, allocs) ==
    [kind |-> "arr", ptr |-> NULL, ids |-> out.ids, times |-> out.times,
     hostnames |-> out.hostnames, count |-> out.count, allocs |-> allocs]

HeldStrings == { b \in held : b.kind = "str" }

\* the snapshots the storage collaborator holds, as Snapshots returns them
SnapshotPool ==
    { [ID |-> <<"a", "1">>, Time |-> <<"T", "2">>, Hostname |-> <<"h">>],
      [ID |-> <<"c", "3">>, Time |-> <<"T", "1">>,
       Hostname |-> <<"h", NUL, "x">>] }

SnapshotLists ==
    UNION { [1 .. n -> SnapshotPool] : n \in 0 .. MaxSnaps }

(***************************************************************************)
(* The operations on a handle                                              *)
(***************************************************************************)
\* repo, exists := repositories[ResticRepo(repo_id)]
Exists(repo_id) == ToResticRepo(repo_id) \in DOMAIN repositories

Lookup(repo_id) == repositories[ToResticRepo(repo_id)]

Returns(call) ==
    /\ lastCall' = call
    /\ UNCHANGED << registryVars, memoryVars, crashed, concVars, probe >>

\* a nil dereference in the exported function: the panic ends the process
Faults(call) ==
    /\ lastCall' = call
    /\ crashed' = TRUE
    /\ UNCHANGED << registryVars, memoryVars, concVars, probe >>

restic_backup(repo_id, paths, tags, nulls, ok) ==
    /\ ~crashed
    /\ IF ~Exists(repo_id)
       THEN Returns(Call("backup", repo_id, RESTIC_ERROR_INVALID_PARAMS, 0))
       ELSE IF paths.null \/ paths.count <= 0
       THEN Returns(Call("backup", repo_id, RESTIC_ERROR_INVALID_PARAMS, 0))
       ELSE LET pathSlice == GoSlice(paths)
                tagSlice == IF tags.count > 0 /\ ~tags.null
                            THEN GoSlice(tags) ELSE <<>>
                repo == Lookup(repo_id)
                arg == << pathSlice, tagSlice >>
                snapshotID == <<"a", "1">>
            IN  IF ~ok
                THEN Returns([Call("backup", repo_id,
                                   RESTIC_ERROR_BACKUP_FAILED, repo)
                                 EXCEPT !.arg = arg])
                ELSE IF "snapshot_id_out" \in nulls
                THEN Faults([Fault("backup", repo_id, repo) EXCEPT !.arg = arg])
                ELSE /\ Cardinality(HeldStrings) < MaxStrings
                     /\ FreeCells(heap) # {}
                     /\ heap' = CString(heap, snapshotID)
                     /\ held' = held \cup {HeldString(Malloc(heap))}
                     /\ lastCall' =
                            [Call("backup", repo_id, RESTIC_OK, repo)
                                EXCEPT !.arg = arg, !.out.ptr = Malloc(heap)]
                     /\ UNCHANGED << registryVars, crashed, concVars, probe >>

restic_restore(repo_id, snapshot_id, target_dir, ok) ==
    /\ ~crashed
    /\ IF ~Exists(repo_id)
       THEN Returns(Call("restore", repo_id, RESTIC_ERROR_INVALID_PARAMS, 0))
       ELSE IF snapshot_id.null \/ target_dir.null
       THEN Returns(Call("restore", repo_id, RESTIC_ERROR_INVALID_PARAMS, 0))
       ELSE LET call == [Call("restore", repo_id, RESTIC_OK, Lookup(repo_id))
                            EXCEPT !.arg = << CGoString(snapshot_id),
                                              CGoString(target_dir) >>]
            IN  IF ~ok
                THEN Returns([call EXCEPT !.ret = RESTIC_ERROR_RESTORE_FAILED])
                ELSE Returns(call)

ListOutNulls == { {}, {"ids_out"}, {"count_out"} }

\* the allocations and the writes of restic_list_snapshots for a non-empty
\* list: the heap after them and the pointers handed out
EncodeSnapshots(h, snapshots) ==
    LET count == Len(snapshots)
        arrays == MallocArrays(h, count)
        filled == StoreSnapshots(arrays.heap, arrays, snapshots, 1)
    IN  [heap |-> filled,
         out |-> [ptr |-> NULL, ids |-> arrays.ids, times |-> arrays.times,
                  hostnames |-> arrays.hostnames, count |-> ToCInt(count)],
         allocs |-> FreeCells(h) \ FreeCells(filled)]

\* snapshots: what repo.Snapshots returned; ok: whether it returned no error
restic_list_snapshots(repo_id, nulls, ok, snapshots) ==
    /\ ~crashed
    /\ IF ~Exists(repo_id)
       THEN Returns(Call("list", repo_id, RESTIC_ERROR_INVALID_PARAMS, 0))
       ELSE LET repo == Lookup(repo_id)
                call == [Call("list", repo_id, RESTIC_OK, repo)
                            EXCEPT !.snaps = snapshots]
            IN  IF ~ok
                THEN Returns(Call("list", repo_id, RESTIC_ERROR_UNKNOWN, repo))
                ELSE IF Len(snapshots) = 0
                THEN IF "count_out" \in nulls
                     THEN Faults(Fault("list", repo_id, repo))
                     ELSE Returns(call)
                ELSE /\ Cardinality(FreeCells(heap)) >= 3 + 3 * Len(snapshots)
                     /\ LET enc == EncodeSnapshots(heap, snapshots)
                        IN  /\ heap' = enc.heap
                            /\ IF nulls # {}
                               THEN /\ lastCall' = Fault("list", repo_id, repo)
                                    /\ crashed' = TRUE
                                    /\ UNCHANGED held
                               ELSE /\ lastCall' =
                                          [call EXCEPT !.out = enc.out,
                                                       !.allocs = enc.allocs]
                                    /\ held' = held \cup
                                          {HeldArrays(enc.out, enc.allocs)}
                                    /\ UNCHANGED crashed
                     /\ UNCHANGED << registryVars, concVars, probe >>

\* errors: len(report.Errors) of the report repo.Check returned
restic_check(repo_id, nulls, ok, errors) ==
    /\ ~crashed
    /\ IF ~Exists(repo_id)
       THEN Returns(Call("check", repo_id, RESTIC_ERROR_INVALID_PARAMS, 0))
       ELSE LET repo == Lookup(repo_id)
            IN  IF ~ok
                THEN Returns(Call("check", repo_id, RESTIC_ERROR_UNKNOWN, repo))
                ELSE IF "errors_out" \in nulls
                THEN Faults(Fault("check", repo_id, repo))
                ELSE Returns([Call("check", repo_id, RESTIC_OK, repo)
                                 EXCEPT !.out.count = ToCInt(errors)])

(***************************************************************************)
(* The release operations and the static strings                           *)
(***************************************************************************)
\* what the caller holds when a call left its out variables untouched
NothingHeld ==
    [kind |-> "none", ptr |-> NULL, ids |-> NULL, times |-> NULL,
     hostnames |-> NULL, count |-> 0, allocs |-> {}]

\* b: the string the caller gives up, or NothingHeld: it passes NULL
restic_free_string(b) ==
    /\ ~crashed
    /\ b \in HeldStrings \cup {NothingHeld}
    /\ heap' = IF b.ptr # NULL THEN [heap EXCEPT ![b.ptr] = FreeBlock]
                ELSE heap
    /\ lastCall' = [Call("free_string", 0, RESTIC_OK, 0)
                       EXCEPT !.out.ptr = b.ptr,
                              !.freed = IF b.ptr # NULL THEN << b.ptr >>
                                        ELSE << >>,
                              !.allocs = b.allocs]
    /\ held' = held \ {b}
    /\ UNCHANGED << registryVars, crashed, concVars, probe >>

\* b: the arrays the caller gives up with their count, or NothingHeld: the
\* NULL pointers and the count 0 a listing without snapshots leaves
restic_free_snapshot_arrays(b) ==
    /\ ~crashed
    /\ b \in { x \in held : x.kind = "arr" } \cup {NothingHeld}
    /\ LET st == FreeSnapshotArrays(heap, b.ids, b.times, b.hostnames, b.count)
       IN  /\ heap' = st.heap
           /\ lastCall' = [Call("free_arrays", 0, RESTIC_OK, 0)
                              EXCEPT !.out = [ptr |-> NULL, ids |-> b.ids,
                                              times |-> b.times,
                                              hostnames |-> b.hostnames,
                                              count |-> b.count],
                                     !.freed = st.freed,
                                     !.allocs = b.allocs]
    /\ held' = held \ {b}
    /\ UNCHANGED << registryVars, crashed, concVars, probe >>

\* the switch with the case for the invalid password lost
ErrorMessageCaseLost(error_code) ==
    CASE error_code = RESTIC_OK -> << "Success" >>
      [] error_code = RESTIC_ERROR_INVALID_PARAMS -> << "Invalid parameters" >>
      [] error_code = RESTIC_ERROR_REPO_NOT_FOUND ->
             << "Repository not found or invalid password" >>
      [] error_code = RESTIC_ERROR_BACKUP_FAILED ->
             << "Backup operation failed" >>
      [] error_code = RESTIC_ERROR_RESTORE_FAILED ->
             << "Restore operation failed" >>
      [] OTHER -> << "Unknown error" >>

\* the text restic_get_error_message copies out
ErrorMessage(error_code) ==
    CASE error_code = RESTIC_OK -> << "Success" >>
      [] error_code = RESTIC_ERROR_INVALID_PARAMS -> << "Invalid parameters" >>
      [] error_code = RESTIC_ERROR_REPO_NOT_FOUND ->
             << "Repository not found or invalid password" >>
      [] error_code = RESTIC_ERROR_INVALID_PASSWORD -> << "Invalid password" >>
      [] error_code = RESTIC_ERROR_BACKUP_FAILED ->
             << "Backup operation failed" >>
      [] error_code = RESTIC_ERROR_RESTORE_FAILED ->
             << "Restore operation failed" >>
      [] OTHER -> << "Unknown error" >>

\* an exported function that returns a fresh C string
ReturnsString(op, s) ==
    /\ ~crashed
    /\ Cardinality(HeldStrings) < MaxStrings
    /\ FreeCells(heap) # {}
    /\ heap' = CString(heap, s)
    /\ held' = held \cup {HeldString(Malloc(heap))}
    /\ lastCall' = [Call(op, 0, RESTIC_OK, 0) EXCEPT !.out.ptr = Malloc(heap)]
    /\ UNCHANGED << registryVars, crashed, concVars, probe >>

restic_get_error_message(error_code) ==
    ReturnsString("get_error_message", ErrorMessage(error_code))

restic_get_version == ReturnsString("get_version", << "resticlib-v0.1.0" >>)

(***************************************************************************)
(* The boundary driven by one caller                                       *)
(***************************************************************************)
NoCallers == << >>

NoProbe == [kind |-> "none"]

Init ==
    /\ nextRepoID = 1
    /\ repositories = << >>
    /\ sessions = << >>
    /\ issued = << >>
    /\ closedHandles = {}
    /\ heap = [a \in 1 .. HeapSize |-> FreeBlock]
    /\ held = {}
    /\ lastCall = NoCall
    /\ crashed = FALSE
    /\ callers = NoCallers
    /\ mapWriting = FALSE
    /\ probe = NoProbe

\* the handles a caller tries: every one it can have been given, and some
\* it never was
HandleArgs == { ToCInt(k) : k \in 0 .. MaxRepoID }

Next ==
    \/ \E nulls \in InitArgNulls, ok \in BOOLEAN :
          restic_init(MaxRepoID, MaxRepoID, nulls, ok)
    \/ \E nulls \in InitArgNulls, ok \in BOOLEAN :
          restic_open(MaxRepoID, MaxRepoID, nulls, ok)
    \/ \E h \in HandleArgs, paths \in PathsArgs, tags \in TagsArgs,
          nulls \in SUBSET {"snapshot_id_out"}, ok \in BOOLEAN :
          restic_backup(h, paths, tags, nulls, ok)
    \/ \E h \in HandleArgs,
          snapshot_id \in {NullStr, CStr(<<"a", "1">>)},
          target_dir \in {NullStr, CStr(<<"/", "r">>)}, ok \in BOOLEAN :
          restic_restore(h, snapshot_id, target_dir, ok)
    \/ \E h \in HandleArgs, nulls \in ListOutNulls, ok \in BOOLEAN,
          snapshots \in SnapshotLists :
          restic_list_snapshots(h, nulls, ok, snapshots)
    \/ \E h \in HandleArgs, nulls \in SUBSET {"errors_out"}, ok \in BOOLEAN,
          errors \in {0, 2} :
          restic_check(h, nulls, ok, errors)
    \/ \E h \in HandleArgs : restic_close(h)
    \/ \E b \in held \cup {NothingHeld} : restic_free_string(b)
    \/ \E b \in held \cup {NothingHeld} : restic_free_snapshot_arrays(b)
    \/ \E code \in {RESTIC_OK, RESTIC_ERROR_UNKNOWN, 1} :
          restic_get_error_message(code)
    \/ restic_get_version

Spec == Init /\ [][Next]_vars

(***************************************************************************)
(* The registry alone, its counter run past the largest C int              *)
(***************************************************************************)
WrapRepoID == CIntMax + 2

\* the handles given out so far, and one that was not
IssuedHandleArgs == Range(issued) \cup {0}

NextWrap ==
    \/ \E nulls \in InitArgNulls, ok \in BOOLEAN :
          restic_init(WrapRepoID, MaxLive, nulls, ok)
    \/ \E nulls \in InitArgNulls, ok \in BOOLEAN :
          restic_open(WrapRepoID, MaxLive, nulls, ok)
    \/ \E h \in IssuedHandleArgs : restic_close(h)

SpecWrap == Init /\ [][NextWrap]_vars

(***************************************************************************)
(* Properties of the handle registry                                       *)
(***************************************************************************)
HandleOps == {"backup", "restore", "list", "check", "close"}

\* the positions of handle h in the history of issued handles
IssuedAt(h) == { i \in DOMAIN issued : issued[i] = h }

\* C1: every successful restic_init/restic_open returns a handle strictly
\* greater than every handle returned earlier (so no value is issued twice,
\* also after a close).  Each state compares the newest handle with all the
\* earlier ones; every prefix of a history is a reachable state.
C1_HandlesStrictlyIncreasing ==
    \A i \in DOMAIN issued :
        i < Len(issued) => issued[i] < issued[Len(issued)]

\* C5: every successful restic_init/restic_open returns, as a C int, a value
\* of at least 1: never 0, never negative, never an error code.
C5_HandlesPositive ==
    \A i \in DOMAIN issued : issued[i] >= 1 /\ issued[i] \notin ErrorCodes

\* C2: restic_backup, restic_restore, restic_list_snapshots, restic_check and
\* restic_close on a handle that was never issued or was already closed
\* return RESTIC_ERROR_INVALID_PARAMS, invoke no operation on any session and
\* leave the registry as it was.
C2_DeadHandleRejected ==
    [][ ( /\ lastCall'.op \in HandleOps
          /\ \/ lastCall'.handle \notin Range(issued)
             \/ lastCall'.handle \in closedHandles )
        => ( /\ lastCall'.ret = RESTIC_ERROR_INVALID_PARAMS
             /\ ~lastCall'.fault
             /\ lastCall'.session = 0
             /\ repositories' = repositories
             /\ sessions' = sessions
             /\ nextRepoID' = nextRepoID ) ]_vars

\* C2 witness: a backup on a handle that was issued and then closed was
\* turned down.
C2_Witness ==
    /\ lastCall.op = "backup"
    /\ lastCall.handle \in Range(issued)
    /\ lastCall.handle \in closedHandles
    /\ lastCall.ret = RESTIC_ERROR_INVALID_PARAMS

\* C3: restic_close on a live handle (issued, not yet closed) closes the
\* session that handle was issued for exactly once, removes the registry
\* entry and returns RESTIC_OK; restic_close on a handle already closed
\* returns RESTIC_ERROR_INVALID_PARAMS, closes nothing, and changes neither
\* the registry nor the handle counter.
C3_CloseOnce ==
    [][ lastCall'.op = "close" =>
        LET h == lastCall'.handle
        IN  /\ (h \in Range(issued) /\ h \notin closedHandles) =>
                 /\ lastCall'.ret = RESTIC_OK
                 /\ \A i \in DOMAIN sessions :
                       sessions'[i].closes =
                           IF i \in IssuedAt(h) THEN 1 ELSE sessions[i].closes
                 /\ \A i \in IssuedAt(h) : sessions[i].closes = 0
                 /\ DOMAIN repositories' = DOMAIN repositories \ {h}
                 /\ \A k \in DOMAIN repositories' :
                       repositories'[k] = repositories[k]
                 /\ nextRepoID' = nextRepoID
            /\ h \in closedHandles =>
                 /\ lastCall'.ret = RESTIC_ERROR_INVALID_PARAMS
                 /\ sessions' = sessions
                 /\ repositories' = repositories
                 /\ nextRepoID' = nextRepoID ]_vars

\* C6: no boundary function lets a fault escape: whatever the handle and
\* whichever pointer arguments are null, restic_backup, restic_restore,
\* restic_list_snapshots and restic_check return a code.
C6_NoFaultEscapes ==
    lastCall.op \in {"backup", "restore", "list", "check"} =>
        /\ ~lastCall.fault
        /\ lastCall.ret \in ErrorCodes \cup {RESTIC_OK}

(***************************************************************************)
(* Properties of the transfer encoding                                     *)
(***************************************************************************)
\* the first position of address a in the log of released cells
FreedAt(freed, a) ==
    CHOOSE i \in DOMAIN freed :
        freed[i] = a /\ \A j \in DOMAIN freed : freed[j] = a => i <= j

\* C7: after a successful restic_list_snapshots with count n > 0, one call
\* restic_free_snapshot_arrays(ids, times, hostnames, n) releases every
\* allocation of that list call exactly once, the 3n strings and the three
\* index arrays, no index array before one of its strings, leaves none of
\* them live and releases nothing else.
C7_FreeReleasesAll ==
    [][ ( /\ lastCall'.op = "free_arrays"
          /\ lastCall'.out.count > 0 )
        => \E b \in held :
              LET c == lastCall'
                  n == b.count
                  arrs == {b.ids, b.times, b.hostnames}
              IN  /\ b.kind = "arr"
                  /\ c.out = [ptr |-> NULL, ids |-> b.ids, times |-> b.times,
                              hostnames |-> b.hostnames, count |-> n]
                  /\ Len(c.freed) = 3 * n + 3
                  /\ Cardinality(Range(c.freed)) = Len(c.freed)
                  /\ Range(c.freed) = b.allocs
                  /\ \A a \in arrs : \A i \in 1 .. n :
                        FreedAt(c.freed, heap[a].data[i]) < FreedAt(c.freed, a)
                  /\ heap' = [a \in DOMAIN heap |->
                                 IF a \in b.allocs THEN FreeBlock ELSE heap[a]]
                  /\ b \notin held' ]_vars

\* C7 witness: the arrays of a listing of two snapshots were released while
\* the caller still held a string.
C7_Witness ==
    /\ lastCall.op = "free_arrays"
    /\ lastCall.out.count = 2
    /\ Len(lastCall.freed) = 9
    /\ HeldStrings # {}

\* the strings the caller decodes from array arr of a listing of n entries
Decoded(h, arr, n) == [i \in 1 .. n |-> GoString(h, h[arr].data[i])]

HasNUL(s) == \E i \in DOMAIN s : s[i] = NUL

\* s decoded to d: d is s itself, or, when s holds a NUL, what precedes the
\* first one
DecodesTo(s, d) ==
    /\ Len(d) <= Len(s)
    /\ \A i \in DOMAIN d : d[i] = s[i] /\ d[i] # NUL
    /\ Len(d) < Len(s) => s[Len(d) + 1] = NUL

\* the part of C8 that holds whatever the strings are: the count, and no
\* allocation for an empty listing
ListCountAndEmpty(c) ==
    /\ c.out.count = Len(c.snaps)
    /\ Len(c.snaps) = 0 => heap' = heap /\ held' = held
    /\ Len(c.snaps) > 0 =>
          /\ c.allocs = FreeCells(heap) \ FreeCells(heap')
          /\ \A a \in DOMAIN heap : a \notin c.allocs => heap'[a] = heap[a]

\* C8 as stated: a successful restic_list_snapshots sets count to the number
\* of snapshots Snapshots returned and ids[i], times[i], hostnames[i] decode
\* to the id, time and hostname of the i-th snapshot, in order; with no
\* snapshot it returns RESTIC_OK with count 0 and allocates nothing.
C8_RoundTripExact ==
    [][ ( /\ lastCall'.op = "list"
          /\ lastCall'.ret = RESTIC_OK )
        => LET c == lastCall'
               n == Len(c.snaps)
           IN  /\ ListCountAndEmpty(c)
               /\ n > 0 =>
                    /\ Decoded(heap', c.out.ids, n) = [i \in 1 .. n |-> c.snaps[i].ID]
                    /\ Decoded(heap', c.out.times, n) = [i \in 1 .. n |-> c.snaps[i].Time]
                    /\ Decoded(heap', c.out.hostnames, n) =
                           [i \in 1 .. n |-> c.snaps[i].Hostname] ]_vars

\* C8 amended: as C8, for every string that holds no NUL byte; a string that
\* holds one decodes to what precedes its first NUL byte.
C8_RoundTripUpToNUL ==
    [][ ( /\ lastCall'.op = "list"
          /\ lastCall'.ret = RESTIC_OK )
        => LET c == lastCall'
               n == Len(c.snaps)
               ids == Decoded(heap', c.out.ids, n)
               times == Decoded(heap', c.out.times, n)
               hostnames == Decoded(heap', c.out.hostnames, n)
           IN  /\ ListCountAndEmpty(c)
               /\ n > 0 => \A i \in 1 .. n :
                    /\ DecodesTo(c.snaps[i].ID, ids[i])
                    /\ DecodesTo(c.snaps[i].Time, times[i])
                    /\ DecodesTo(c.snaps[i].Hostname, hostnames[i])
                    /\ ~HasNUL(c.snaps[i].ID) => ids[i] = c.snaps[i].ID
                    /\ ~HasNUL(c.snaps[i].Time) => times[i] = c.snaps[i].Time
                    /\ ~HasNUL(c.snaps[i].Hostname) =>
                           hostnames[i] = c.snaps[i].Hostname ]_vars

\* C8 witness: a listing of two different snapshots came back, the first
\* one's strings read back as they were.
C8_Witness ==
    /\ lastCall.op = "list"
    /\ lastCall.ret = RESTIC_OK
    /\ lastCall.out.count = 2
    /\ lastCall.snaps[1] # lastCall.snaps[2]
    /\ GoString(heap, heap[lastCall.out.ids].data[1]) = lastCall.snaps[1].ID
    /\ GoString(heap, heap[lastCall.out.hostnames].data[1]) =
           lastCall.snaps[1].Hostname

(***************************************************************************)
(* The error taxonomy: restic_get_error_message over every C int           *)
(***************************************************************************)
InitMsg ==
    /\ nextRepoID = 1
    /\ repositories = << >>
    /\ sessions = << >>
    /\ issued = << >>
    /\ closedHandles = {}
    /\ heap = [a \in 1 .. HeapSize |-> FreeBlock]
    /\ held = {}
    /\ lastCall = NoCall
    /\ crashed = FALSE
    /\ callers = NoCallers
    /\ mapWriting = FALSE
    /\ probe \in { [kind |-> "msg", code |-> c] : c \in CIntRange }

NextMsg ==
    \/ restic_get_error_message(probe.code)
    \/ \E b \in held : restic_free_string(b)

SpecMsg == InitMsg /\ [][NextMsg]_vars

\* C9: restic_get_error_message is total: 0 gives "Success", -1 "Invalid
\* parameters", -2 "Repository not found or invalid password", -3 "Invalid
\* password", -4 "Backup operation failed", -5 "Restore operation failed",
\* every other integer (-99 and the positive ones too) "Unknown error"; the
\* string returned is never empty.
C9_MessageTotal ==
    lastCall.op = "get_error_message" =>
        LET m == GoString(heap, lastCall.out.ptr)
            c == probe.code
        IN  /\ lastCall.out.ptr # NULL
            /\ m # << >>
            /\ \A i \in DOMAIN m : m[i] # ""
            /\ c = 0 => m = << "Success" >>
            /\ c = -1 => m = << "Invalid parameters" >>
            /\ c = -2 => m = << "Repository not found or invalid password" >>
            /\ c = -3 => m = << "Invalid password" >>
            /\ c = -4 => m = << "Backup operation failed" >>
            /\ c = -5 => m = << "Restore operation failed" >>
            /\ c \notin -5 .. 0 => m = << "Unknown error" >>

\* C9 witness: the message of -3 was asked for and read back.
C9_Witness ==
    /\ lastCall.op = "get_error_message"
    /\ probe.code = RESTIC_ERROR_INVALID_PASSWORD
    /\ GoString(heap, lastCall.out.ptr) = << "Invalid password" >>

(***************************************************************************)
(* filepath.Match and filepath.Base, as the path filters call them.  A     *)
(* path and a pattern are sequences of characters.                         *)
(***************************************************************************)
Separator == "/"

\* the characters of the model in the order of their codes
Alphabet == << "*", "-", ".", "/", "?", "[", "\\", "]", "^", "a", "b", "d" >>

Ord(c) == CHOOSE i \in DOMAIN Alphabet : Alphabet[i] = c

Drop(s, n) == SubSeq(s, n + 1, Len(s))

\* getEsc: the next character of a class, its escape removed; bad when the
\* class ends there, or with '-' or ']' in this place
GetEsc(chunk) ==
    IF chunk = << >> \/ chunk[1] = "-" \/ chunk[1] = "]"
    THEN [bad |-> TRUE, r |-> "", rest |-> << >>]
    ELSE LET c == IF chunk[1] = "\\" THEN Drop(chunk, 1) ELSE chunk
         IN  IF c = << >> \/ Len(c) = 1
             THEN [bad |-> TRUE, r |-> "", rest |-> << >>]
             ELSE [bad |-> FALSE, r |-> c[1], rest |-> Drop(c, 1)]

\* the ranges of a character class up to its ']': whether the class is
\* malformed, whether r is in one of the ranges, and what follows the class
RECURSIVE ClassRanges(_, _, _, _)
ClassRanges(chunk, r, nrange, match) ==
    IF chunk # << >> /\ chunk[1] = "]" /\ nrange > 0
    THEN [bad |-> FALSE, match |-> match, rest |-> Drop(chunk, 1)]
    ELSE LET lo == GetEsc(chunk)
         IN  IF lo.bad
             THEN [bad |-> TRUE, match |-> FALSE, rest |-> << >>]
             ELSE IF lo.rest[1] = "-"
             THEN LET hi == GetEsc(Drop(lo.rest, 1))
                  IN  IF hi.bad
                      THEN [bad |-> TRUE, match |-> FALSE, rest |-> << >>]
                      ELSE ClassRanges(hi.rest, r, nrange + 1,
                               match \/ (r # "" /\ Ord(lo.r) <= Ord(r)
                                                /\ Ord(r) <= Ord(hi.r)))
             ELSE ClassRanges(lo.rest, r, nrange + 1, match \/ r = lo.r)

\* a class '[' ['^'] ranges ']' at the head of the pattern, against r
Class(pattern, r) ==
    LET negated == Len(pattern) > 1 /\ pattern[2] = "^"
        ranges == ClassRanges(Drop(pattern, IF negated THEN 2 ELSE 1),
                              r, 0, FALSE)
    IN  [bad |-> ranges.bad, rest |-> ranges.rest,
         match |-> r # "" /\ ranges.match # negated]

\* a pattern with an unclosed or empty class or a trailing backslash is
\* ErrBadPattern whatever the name is
RECURSIVE BadPattern(_)
BadPattern(pattern) ==
    IF pattern = << >>
    THEN FALSE
    ELSE IF pattern[1] = "["
    THEN LET c == Class(pattern, "")
         IN  c.bad \/ BadPattern(c.rest)
    ELSE IF pattern[1] = "\\"
    THEN Len(pattern) = 1 \/ BadPattern(Drop(pattern, 2))
    ELSE BadPattern(Drop(pattern, 1))

\* the match of a well-formed pattern: '*' a run of non-separators, '?' one
\* non-separator, a class one character, '\\c' and c the character c
RECURSIVE Matches(_, _)
Matches(pattern, name) ==
    IF pattern = << >>
    THEN name = << >>
    ELSE IF pattern[1] = "*"
    THEN \E k \in 0 .. Len(name) :
            /\ \A j \in 1 .. k : name[j] # Separator
            /\ Matches(Drop(pattern, 1), Drop(name, k))
    ELSE IF name = << >>
    THEN FALSE
    ELSE IF pattern[1] = "?"
    THEN name[1] # Separator /\ Matches(Drop(pattern, 1), Drop(name, 1))
    ELSE IF pattern[1] = "["
    THEN LET c == Class(pattern, name[1])
         IN  c.match /\ Matches(c.rest, Drop(name, 1))
    ELSE IF pattern[1] = "\\"
    THEN pattern[2] = name[1] /\ Matches(Drop(pattern, 2), Drop(name, 1))
    ELSE pattern[1] = name[1] /\ Matches(Drop(pattern, 1), Drop(name, 1))

\* matched, _ := filepath.Match(pattern, name): false with the error dropped
Match(pattern, name) == ~BadPattern(pattern) /\ Matches(pattern, name)

\* the path without its trailing separators
RECURSIVE TrimSeparators(_)
TrimSeparators(path) ==
    IF path # << >> /\ path[Len(path)] = Separator
    THEN TrimSeparators(SubSeq(path, 1, Len(path) - 1))
    ELSE path

\* what follows the last separator of the path
RECURSIVE LastElement(_)
LastElement(path) ==
    IF \E i \in DOMAIN path : path[i] = Separator
    THEN LastElement(Drop(path, 1))
    ELSE path

\* filepath.Base
Base(path) ==
    IF path = << >>
    THEN << "." >>
    ELSE IF TrimSeparators(path) = << >>
    THEN << Separator >>
    ELSE LastElement(TrimSeparators(path))

(***************************************************************************)
(* The selection filter of Restore                                         *)
(***************************************************************************)
\* the include loop: the value of matched when the loop ends
RECURSIVE IncludeMatched(_, _)
IncludeMatched(includePatterns, item) ==
    IF includePatterns = << >>
    THEN FALSE
    ELSE IF Match(Head(includePatterns), item)
    THEN TRUE
    ELSE IF Match(Head(includePatterns), Base(item))
    THEN TRUE
    ELSE IncludeMatched(Tail(includePatterns), item)

\* the exclude loop: whether it returns (false, false)
RECURSIVE ExcludeMatched(_, _)
ExcludeMatched(excludePatterns, item) ==
    IF excludePatterns = << >>
    THEN FALSE
    ELSE IF Match(Head(excludePatterns), item)
    THEN TRUE
    ELSE IF Match(Head(excludePatterns), Base(item))
    THEN TRUE
    ELSE ExcludeMatched(Tail(excludePatterns), item)

\* the filter with its two phases in the other order
selectFilterExcludeFirst(item, includePatterns, excludePatterns) ==
    IF ExcludeMatched(excludePatterns, item)
    THEN << FALSE, FALSE >>
    ELSE IF Len(includePatterns) > 0 /\ ~IncludeMatched(includePatterns, item)
    THEN << FALSE, TRUE >>
    ELSE << TRUE, TRUE >>

\* the filter with its exclude patterns matched against the last element only
selectFilterExcludeByBase(item, includePatterns, excludePatterns) ==
    IF Len(includePatterns) > 0 /\ ~IncludeMatched(includePatterns, item)
    THEN << FALSE, TRUE >>
    ELSE IF \E i \in DOMAIN excludePatterns :
               Match(excludePatterns[i], Base(item))
    THEN << FALSE, FALSE >>
    ELSE << TRUE, TRUE >>

\* (selectedForRestore, childMayBeSelected)
selectFilter(item, includePatterns, excludePatterns) ==
    IF Len(includePatterns) > 0 /\ ~IncludeMatched(includePatterns, item)
    THEN << FALSE, TRUE >>
    ELSE IF ExcludeMatched(excludePatterns, item)
    THEN << FALSE, FALSE >>
    ELSE << TRUE, TRUE >>

(***************************************************************************)
(* The selection function of Backup (arch.SelectByName)                    *)
(***************************************************************************)
\* the include loop of Backup: the value of matched when the loop ends
RECURSIVE IncludeMatchedByName(_, _)
IncludeMatchedByName(Includes, item) ==
    IF Includes = << >>
    THEN FALSE
    ELSE IF Match(Head(Includes), Base(item))
    THEN TRUE
    ELSE IncludeMatchedByName(Tail(Includes), item)

\* the exclude loop of Backup: whether it returns false
RECURSIVE ExcludeMatchedByName(_, _)
ExcludeMatchedByName(Excludes, item) ==
    IF Excludes = << >>
    THEN FALSE
    ELSE IF Match(Head(Excludes), Base(item))
    THEN TRUE
    ELSE ExcludeMatchedByName(Tail(Excludes), item)

SelectByName(item, Includes, Excludes) ==
    IF Len(Includes) > 0 /\ ~IncludeMatchedByName(Includes, item)
    THEN FALSE
    ELSE IF ExcludeMatchedByName(Excludes, item)
    THEN FALSE
    ELSE TRUE

\* Backup's answer for the probed item
BackupSelect ==
    /\ probe.kind = "filter"
    /\ probe' = [probe EXCEPT
                    !.backup = << SelectByName(probe.item, probe.includes,
                                               probe.excludes) >>]
    /\ UNCHANGED << registryVars, memoryVars, lastCall, crashed, concVars >>

\* the filter's answer for the probed item
RestoreSelect ==
    /\ probe.kind = "filter"
    /\ probe' = [probe EXCEPT
                    !.restore = selectFilter(probe.item, probe.includes,
                                             probe.excludes)]
    /\ UNCHANGED << registryVars, memoryVars, lastCall, crashed, concVars >>

Items ==
    { << >>, << "a" >>, << "b" >>, << "d" >>, << "d", "/" >>,
      << "d", "/", "a" >>, << "d", "/", "b" >> }

Patterns ==
    { << "a" >>, << "*" >>, << "d", "/", "?" >>,
      << "[", "a", "-", "b", "]" >>, << "[", "d" >> }

PatternLists == UNION { [1 .. n -> Patterns] : n \in 0 .. MaxPatterns }

NotAsked == << >>

InitFilter ==
    /\ nextRepoID = 1
    /\ repositories = << >>
    /\ sessions = << >>
    /\ issued = << >>
    /\ closedHandles = {}
    /\ heap = [a \in 1 .. HeapSize |-> FreeBlock]
    /\ held = {}
    /\ lastCall = NoCall
    /\ crashed = FALSE
    /\ callers = NoCallers
    /\ mapWriting = FALSE
    /\ probe \in { [kind |-> "filter", item |-> item, includes |-> inc,
                    excludes |-> exc, restore |-> NotAsked,
                    backup |-> NotAsked] :
                   item \in Items, inc \in PatternLists, exc \in PatternLists }

NextFilter == RestoreSelect \/ BackupSelect

SpecFilter == InitFilter /\ [][NextFilter]_vars

\* the item matches one of the patterns, by its full path or by its last
\* element
MatchesAny(patterns, item) ==
    \E i \in DOMAIN patterns :
        Match(patterns[i], item) \/ Match(patterns[i], Base(item))

\* C10: the restore filter returns (false, true) when the include list is
\* not empty and the item matches none of its patterns, by full path or by
\* final component; otherwise (false, false) when the item matches an exclude
\* pattern; otherwise (true, true).  So an item that matches no pattern of a
\* non-empty include list and matches an exclude pattern gets (false, true).
C10_RestoreFilterPhases ==
    probe.restore # NotAsked =>
        LET included == MatchesAny(probe.includes, probe.item)
            excluded == MatchesAny(probe.excludes, probe.item)
        IN  /\ (probe.includes # << >> /\ ~included) =>
                  probe.restore = << FALSE, TRUE >>
            /\ (~(probe.includes # << >> /\ ~included) /\ excluded) =>
                  probe.restore = << FALSE, FALSE >>
            /\ (~(probe.includes # << >> /\ ~included) /\ ~excluded) =>
                  probe.restore = << TRUE, TRUE >>

\* C10 witness: an item that matches no include pattern and matches an
\* exclude pattern by its full path only was answered (false, true).
C10_Witness ==
    /\ probe.restore = << FALSE, TRUE >>
    /\ probe.includes # << >>
    /\ ~MatchesAny(probe.includes, probe.item)
    /\ \E i \in DOMAIN probe.excludes :
          /\ Match(probe.excludes[i], probe.item)
          /\ ~Match(probe.excludes[i], Base(probe.item))

(***************************************************************************)
(* The registry driven by two callers at once.  The exported functions     *)
(* take no lock: a call is a sequence of steps, one per access to          *)
(* nextRepoID and to the map, and the steps of the callers interleave.     *)
(***************************************************************************)
Callers == {"c1", "c2"}

IdleCaller ==
    [pc |-> "idle", op |-> "none", repo |-> 0, repoID |-> 0, tmp |-> 0,
     ret |-> 0, ok |-> FALSE]

seqVars == << heap, held, lastCall, probe >>

\* the caller enters restic_init or restic_open with valid arguments; the
\* library call fails, or creates the session of this call
ConcBegin(c, op, failure, ok) ==
    /\ ~crashed
    /\ callers[c].pc = "idle"
    /\ IF ok
       THEN /\ Len(sessions) < MaxRepoID
            /\ sessions' = Append(sessions, [closes |-> 0])
            /\ callers' = [callers EXCEPT
                  ![c] = [IdleCaller EXCEPT !.pc = "read", !.op = op,
                                            !.repo = Len(sessions) + 1]]
       ELSE /\ callers' = [callers EXCEPT
                  ![c] = [IdleCaller EXCEPT !.pc = "done", !.op = op,
                                            !.ret = failure]]
            /\ UNCHANGED sessions
    /\ UNCHANGED << nextRepoID, repositories, issued, closedHandles,
                    mapWriting, crashed, seqVars >>

\* repoID := nextRepoID
ConcReadID(c) ==
    /\ ~crashed
    /\ callers[c].pc = "read"
    /\ callers' = [callers EXCEPT ![c].repoID = nextRepoID, ![c].pc = "load"]
    /\ UNCHANGED << registryVars, mapWriting, crashed, seqVars >>

\* nextRepoID++: the load
ConcLoadID(c) ==
    /\ ~crashed
    /\ callers[c].pc = "load"
    /\ callers' = [callers EXCEPT ![c].tmp = nextRepoID, ![c].pc = "store"]
    /\ UNCHANGED << registryVars, mapWriting, crashed, seqVars >>

\* nextRepoID++: the store
ConcStoreID(c) ==
    /\ ~crashed
    /\ callers[c].pc = "store"
    /\ nextRepoID' = IncRepoID(callers[c].tmp)
    /\ callers' = [callers EXCEPT ![c].pc = "assign"]
    /\ UNCHANGED << repositories, sessions, issued, closedHandles,
                    mapWriting, crashed, seqVars >>

\* repositories[repoID] = repo: the map write starts; the runtime ends the
\* process when it finds another write under way
ConcAssignBegin(c) ==
    /\ ~crashed
    /\ callers[c].pc = "assign"
    /\ IF mapWriting
       THEN /\ crashed' = TRUE
            /\ UNCHANGED << callers, mapWriting >>
       ELSE /\ mapWriting' = TRUE
            /\ callers' = [callers EXCEPT ![c].pc = "assigning"]
            /\ UNCHANGED crashed
    /\ UNCHANGED << registryVars, seqVars >>

\* repositories[repoID] = repo: the entry is written
ConcAssignEnd(c) ==
    /\ ~crashed
    /\ callers[c].pc = "assigning"
    /\ repositories' = MapSet(repositories, callers[c].repoID, callers[c].repo)
    /\ mapWriting' = FALSE
    /\ callers' = [callers EXCEPT ![c].pc = "return"]
    /\ UNCHANGED << nextRepoID, sessions, issued, closedHandles, crashed,
                    seqVars >>

\* return C.int(repoID)
ConcReturn(c) ==
    /\ ~crashed
    /\ callers[c].pc = "return"
    /\ issued' = Append(issued, ToCInt(callers[c].repoID))
    /\ callers' = [callers EXCEPT ![c].ret = ToCInt(callers[c].repoID),
                                  ![c].ok = TRUE, ![c].pc = "done"]
    /\ UNCHANGED << nextRepoID, repositories, sessions, closedHandles,
                    mapWriting, crashed, seqVars >>

InitConc ==
    /\ nextRepoID = 1
    /\ repositories = << >>
    /\ sessions = << >>
    /\ issued = << >>
    /\ closedHandles = {}
    /\ heap = [a \in 1 .. HeapSize |-> FreeBlock]
    /\ held = {}
    /\ lastCall = NoCall
    /\ crashed = FALSE
    /\ callers = [c \in Callers |-> IdleCaller]
    /\ mapWriting = FALSE
    /\ probe = NoProbe

NextConc ==
    \/ \E c \in Callers, ok \in BOOLEAN :
          ConcBegin(c, "init", RESTIC_ERROR_REPO_NOT_FOUND, ok)
    \/ \E c \in Callers, ok \in BOOLEAN :
          ConcBegin(c, "open", RESTIC_ERROR_INVALID_PASSWORD, ok)
    \/ \E c \in Callers : ConcReadID(c)
    \/ \E c \in Callers : ConcLoadID(c)
    \/ \E c \in Callers : ConcStoreID(c)
    \/ \E c \in Callers : ConcAssignBegin(c)
    \/ \E c \in Callers : ConcAssignEnd(c)
    \/ \E c \in Callers : ConcReturn(c)

SpecConc == InitConc /\ [][NextConc]_vars

\* C4: when two callers run restic_init/restic_open at the same time, in any
\* interleaving, the two successful calls return different handles and, once
\* both have returned, both handles are in the registry, each mapped to the
\* session its own call created.
C4_ConcurrentOpenDistinct ==
    \A c \in Callers, d \in Callers :
        ( /\ c # d
          /\ callers[c].pc = "done" /\ callers[c].ok
          /\ callers[d].pc = "done" /\ callers[d].ok )
        => /\ callers[c].ret # callers[d].ret
           /\ ToResticRepo(callers[c].ret) \in DOMAIN repositories
           /\ repositories[ToResticRepo(callers[c].ret)] = callers[c].repo

(***************************************************************************)
(* The library behind the boundary: snapshot filter and listing            *)
(***************************************************************************)
\* the boundary at rest while the library is looked at on its own
BoundaryAtRest ==
    /\ nextRepoID = 1
    /\ repositories = << >>
    /\ sessions = << >>
    /\ issued = << >>
    /\ closedHandles = {}
    /\ heap = [a \in 1 .. HeapSize |-> FreeBlock]
    /\ held = {}
    /\ lastCall = NoCall
    /\ crashed = FALSE
    /\ callers = NoCallers
    /\ mapWriting = FALSE

\* strings.Contains(s, substr)
Contains(s, substr) ==
    \E i \in 0 .. Len(s) - Len(substr) :
        SubSeq(s, i + 1, i + Len(substr)) = substr

\* a *string: nil, or a pointer to a string
NilString == [nil |-> TRUE, val |-> << >>]

StringPtr(s) == [nil |-> FALSE, val |-> s]

\* Timestamps, scaled down from RFC 3339: "T", one digit of time and either
\* nothing (UTC) or a sign and one digit of zone offset; the instant of
\* "T2+1" is 2 - 1.
Digits == << "0", "1", "2", "3" >>

IsDigit(c) == \E i \in DOMAIN Digits : Digits[i] = c

DigitValue(c) == (CHOOSE i \in DOMAIN Digits : Digits[i] = c) - 1

\* time.Parse(time.RFC3339, value): the instant, or an error and the zero
\* time
ParseTime(value) ==
    IF Len(value) = 2 /\ value[1] = "T" /\ IsDigit(value[2])
    THEN [err |-> FALSE, t |-> DigitValue(value[2])]
    ELSE IF /\ Len(value) = 4
            /\ value[1] = "T"
            /\ IsDigit(value[2])
            /\ value[3] \in {"+", "-"}
            /\ IsDigit(value[4])
         THEN [err |-> FALSE,
               t |-> IF value[3] = "+"
                     THEN DigitValue(value[2]) - DigitValue(value[4])
                     ELSE DigitValue(value[2]) + DigitValue(value[4])]
         ELSE [err |-> TRUE, t |-> 0]

\* for _, host := range filter.Hosts { if sn.Hostname == host ... }
RECURSIVE HostFound(_, _)
HostFound(hosts, hostname) ==
    IF hosts = << >> THEN FALSE
    ELSE IF hostname = Head(hosts) THEN TRUE
    ELSE HostFound(Tail(hosts), hostname)

\* for _, snPath := range sn.Paths { if strings.Contains(snPath, filterPath) }
RECURSIVE PathContained(_, _)
PathContained(snPaths, filterPath) ==
    IF snPaths = << >> THEN FALSE
    ELSE IF Contains(Head(snPaths), filterPath) THEN TRUE
    ELSE PathContained(Tail(snPaths), filterPath)

\* for _, filterPath := range filter.Paths { ... }
RECURSIVE PathFound(_, _)
PathFound(filterPaths, snPaths) ==
    IF filterPaths = << >> THEN FALSE
    ELSE IF PathContained(snPaths, Head(filterPaths)) THEN TRUE
    ELSE PathFound(Tail(filterPaths), snPaths)

\* for _, snTag := range sn.Tags { if snTag == filterTag ... }
RECURSIVE TagEqual(_, _)
TagEqual(snTags, filterTag) ==
    IF snTags = << >> THEN FALSE
    ELSE IF Head(snTags) = filterTag THEN TRUE
    ELSE TagEqual(Tail(snTags), filterTag)

\* for _, filterTag := range filter.Tags { ... }
RECURSIVE TagFound(_, _)
TagFound(filterTags, snTags) ==
    IF filterTags = << >> THEN FALSE
    ELSE IF TagEqual(snTags, Head(filterTags)) THEN TRUE
    ELSE TagFound(Tail(filterTags), snTags)

\* the filter with its paths compared by prefix
matchesFilterByPrefix(sn, filter) ==
    /\ Len(filter.Hosts) > 0 => HostFound(filter.Hosts, sn.Hostname)
    /\ Len(filter.Paths) > 0 =>
          \E i \in DOMAIN filter.Paths, j \in DOMAIN sn.Paths :
              /\ Len(filter.Paths[i]) <= Len(sn.Paths[j])
              /\ SubSeq(sn.Paths[j], 1, Len(filter.Paths[i])) = filter.Paths[i]
    /\ Len(filter.Tags) > 0 => TagFound(filter.Tags, sn.Tags)
    /\ ~filter.Since.nil =>
          ~(~ParseTime(filter.Since.val).err
            /\ sn.Time < ParseTime(filter.Since.val).t)
    /\ ~filter.Until.nil =>
          ~(~ParseTime(filter.Until.val).err
            /\ sn.Time > ParseTime(filter.Until.val).t)

\* the filter with a since or until that does not parse rejecting the snapshot
matchesFilterMalformedRejects(sn, filter) ==
    /\ Len(filter.Hosts) > 0 => HostFound(filter.Hosts, sn.Hostname)
    /\ Len(filter.Paths) > 0 => PathFound(filter.Paths, sn.Paths)
    /\ Len(filter.Tags) > 0 => TagFound(filter.Tags, sn.Tags)
    /\ ~filter.Since.nil =>
          /\ ~ParseTime(filter.Since.val).err
          /\ sn.Time >= ParseTime(filter.Since.val).t
    /\ ~filter.Until.nil =>
          /\ ~ParseTime(filter.Until.val).err
          /\ sn.Time <= ParseTime(filter.Until.val).t

matchesFilter(sn, filter) ==
    IF Len(filter.Hosts) > 0 /\ ~HostFound(filter.Hosts, sn.Hostname)
    THEN FALSE
    ELSE IF Len(filter.Paths) > 0 /\ ~PathFound(filter.Paths, sn.Paths)
    THEN FALSE
    ELSE IF Len(filter.Tags) > 0 /\ ~TagFound(filter.Tags, sn.Tags)
    THEN FALSE
    ELSE IF /\ ~filter.Since.nil
            /\ ~ParseTime(filter.Since.val).err
            /\ sn.Time < ParseTime(filter.Since.val).t
    THEN FALSE
    ELSE IF /\ ~filter.Until.nil
            /\ ~ParseTime(filter.Until.val).err
            /\ sn.Time > ParseTime(filter.Until.val).t
    THEN FALSE
    ELSE TRUE

\* the filter's answer for the probed snapshot
MatchSnapshot ==
    /\ probe.kind = "match"
    /\ probe.matches = NotAsked
    /\ probe' = [probe EXCEPT
                    !.matches = << matchesFilter(probe.sn, probe.filter) >>]
    /\ UNCHANGED << registryVars, memoryVars, lastCall, crashed, concVars >>

\* snapshots as the storage holds them (data.Snapshot)
DataSnapshot(id, t, host, paths, tags) ==
    [ID |-> id, Time |-> t, Hostname |-> host, Paths |-> paths,
     Tags |-> tags]

MatchSnapshots ==
    { DataSnapshot(<< "a", "1" >>, 1, << "h" >>,
                   << << "/", "d", "/", "e" >> >>, << << "t" >> >>),
      DataSnapshot(<< "b", "2" >>, 2, << "g" >>,
                   << << "/", "e" >>, << "/", "d" >> >>,
                   << << "u" >>, << "t" >> >>),
      DataSnapshot(<< "c", "3" >>, 0, << "h" >>, << >>, << >>) }

HostFilters == { << >>, << << "h" >> >>, << << "x" >>, << "g" >> >> }

PathFilters ==
    { << >>, << << "d", "/" >> >>, << << "e", "/" >>, << "/", "e" >> >>,
      << << >> >> }

TagFilters == { << >>, << << "t" >> >>, << << "x" >>, << "u" >> >> }

TimeFilters ==
    { NilString, StringPtr(<< "T", "1" >>), StringPtr(<< "T", "3", "+", "1" >>),
      StringPtr(<< "1" >>) }

SnapshotFilter(hosts, paths, tags, since, until, limit) ==
    [Hosts |-> hosts, Paths |-> paths, Tags |-> tags, Since |-> since,
     Until |-> until, Limit |-> limit]

InitMatch ==
    /\ BoundaryAtRest
    /\ probe \in { [kind |-> "match", sn |-> sn,
                    filter |-> SnapshotFilter(hosts, paths, tags, since,
                                              until, 0),
                    matches |-> NotAsked] :
                   sn \in MatchSnapshots, hosts \in HostFilters,
                   paths \in PathFilters, tags \in TagFilters,
                   since \in TimeFilters, until \in TimeFilters }

NextMatch == MatchSnapshot

SpecMatch == InitMatch /\ [][NextMatch]_vars

\* the instants a timestamp can name
Instants == -3 .. 6

\* the instant a since/until value names, if it names one
Names(value, t) == ~ParseTime(value.val).err /\ ParseTime(value.val).t = t

NamesInstant(value) == \E t \in Instants : Names(value, t)

HostsHold(sn, filter) ==
    filter.Hosts = << >>
        \/ \E i \in DOMAIN filter.Hosts : filter.Hosts[i] = sn.Hostname

PathsHold(sn, filter) ==
    filter.Paths = << >>
        \/ \E i \in DOMAIN filter.Paths, j \in DOMAIN sn.Paths :
              Contains(sn.Paths[j], filter.Paths[i])

TagsHold(sn, filter) ==
    filter.Tags = << >>
        \/ \E i \in DOMAIN filter.Tags, j \in DOMAIN sn.Tags :
              filter.Tags[i] = sn.Tags[j]

\* C11 as stated: matchesFilter is true exactly when Hosts is empty or lists
\* the snapshot's hostname, Paths is empty or some filter path is a substring
\* of some snapshot path, Tags is empty or some filter tag equals some
\* snapshot tag, Since is absent or the snapshot time is not before the
\* instant it names, and Until is absent or the snapshot time is not after
\* the instant it names.
C11_MatchesFilterExact ==
    (probe.kind = "match" /\ probe.matches # NotAsked) =>
        LET sn == probe.sn
            filter == probe.filter
        IN  probe.matches[1] <=>
              /\ HostsHold(sn, filter)
              /\ PathsHold(sn, filter)
              /\ TagsHold(sn, filter)
              /\ filter.Since.nil
                    \/ \E t \in Instants : Names(filter.Since, t) /\ sn.Time >= t
              /\ filter.Until.nil
                    \/ \E t \in Instants : Names(filter.Until, t) /\ sn.Time <= t

\* C11 amended: as above, with a Since or Until value that does not parse as
\* a timestamp counted as absent.
C11_MatchesFilterMalformedAbsent ==
    (probe.kind = "match" /\ probe.matches # NotAsked) =>
        LET sn == probe.sn
            filter == probe.filter
        IN  probe.matches[1] <=>
              /\ HostsHold(sn, filter)
              /\ PathsHold(sn, filter)
              /\ TagsHold(sn, filter)
              /\ \/ filter.Since.nil
                 \/ ~NamesInstant(filter.Since)
                 \/ \E t \in Instants : Names(filter.Since, t) /\ sn.Time >= t
              /\ \/ filter.Until.nil
                 \/ ~NamesInstant(filter.Until)
                 \/ \E t \in Instants : Names(filter.Until, t) /\ sn.Time <= t

\* C11 witness: a snapshot was matched by a filter with a host list, a path
\* list, a tag list, a since and an until, the path by containment only.
C11_Witness ==
    /\ probe.kind = "match"
    /\ probe.matches = << TRUE >>
    /\ probe.filter.Hosts # << >>
    /\ probe.filter.Tags # << >>
    /\ probe.filter.Paths = << << "d", "/" >> >>
    /\ NamesInstant(probe.filter.Since)
    /\ NamesInstant(probe.filter.Until)

\* restic.ID.Str(): the short form of an identifier, its first characters
\* (two here, eight of the sixty-four in the program)
Str(id) == SubSeq(id, 1, 2)

\* Time.Format(time.RFC3339) of an instant, in UTC
FormatTime(t) == << "T", Digits[t + 1] >>

convertSnapshot(sn) ==
    [ID |-> Str(sn.ID), Time |-> FormatTime(sn.Time),
     Hostname |-> sn.Hostname, Paths |-> sn.Paths, Tags |-> sn.Tags]

\* the callback of repo.List giving up at the first snapshot that does not
\* load
RECURSIVE LoadAllUntilFailure(_)
LoadAllUntilFailure(stored) ==
    IF stored = << >> THEN << >>
    ELSE IF Head(stored).loadable
         THEN << Head(stored).sn >> \o LoadAllUntilFailure(Tail(stored))
         ELSE << >>

\* the callback of repo.List: a snapshot that does not load is skipped
RECURSIVE LoadAll(_)
LoadAll(stored) ==
    IF stored = << >> THEN << >>
    ELSE IF Head(stored).loadable
         THEN << Head(stored).sn >> \o LoadAll(Tail(stored))
         ELSE LoadAll(Tail(stored))

\* for _, sn := range allSnapshots { if r.matchesFilter(sn, filter) ... }
RECURSIVE FilterAll(_, _)
FilterAll(allSnapshots, filter) ==
    IF allSnapshots = << >> THEN << >>
    ELSE IF matchesFilter(Head(allSnapshots), filter)
         THEN << Head(allSnapshots) >> \o FilterAll(Tail(allSnapshots), filter)
         ELSE FilterAll(Tail(allSnapshots), filter)

\* sort.Slice with less(i, j) = s[i].Time.After(s[j].Time): a permutation in
\* which no element is followed by one that is less than it; sort.Slice is
\* not a stable sort, so elements of equal time come in any order
SortSlice(s) ==
    { [i \in DOMAIN s |-> s[p[i]]] :
        p \in { q \in [DOMAIN s -> DOMAIN s] :
                  /\ \A i, j \in DOMAIN s : i # j => q[i] # q[j]
                  /\ \A i, j \in DOMAIN s :
                        i < j => ~(s[q[j]].Time > s[q[i]].Time) } }

\* the limit applied to every value but zero
ApplyLimitNonZero(snapshots, limit) ==
    IF limit # 0 /\ Len(snapshots) > limit
    THEN SubSeq(snapshots, 1, limit)
    ELSE snapshots

\* if filter.Limit > 0 && len(filteredSnapshots) > filter.Limit
ApplyLimit(snapshots, limit) ==
    IF limit > 0 /\ Len(snapshots) > limit
    THEN SubSeq(snapshots, 1, limit)
    ELSE snapshots

ConvertAll(snapshots) ==
    [i \in DOMAIN snapshots |-> convertSnapshot(snapshots[i])]

\* Snapshots(ctx, filter) on the probed storage
Snapshots ==
    /\ probe.kind = "list"
    /\ probe.result = NotAsked
    /\ IF probe.listErr
       THEN probe' = [probe EXCEPT
                         !.result = << [err |-> TRUE, snapshots |-> << >>] >>]
       ELSE \E sorted \in SortSlice(FilterAll(LoadAll(probe.stored),
                                              probe.filter)) :
               probe' = [probe EXCEPT
                  !.result =
                     << [err |-> FALSE,
                         snapshots |->
                            ConvertAll(ApplyLimit(sorted,
                                                  probe.filter.Limit))] >>]
    /\ UNCHANGED << registryVars, memoryVars, lastCall, crashed, concVars >>

\* what the storage lists: snapshot files in the order List reports them,
\* some of which do not load
StoredPool ==
    { DataSnapshot(<< "a", "1", "x" >>, 1, << "h" >>,
                   << << "/", "d" >> >>, << << "pin" >> >>),
      DataSnapshot(<< "b", "2", "x" >>, 1, << "h" >>,
                   << << "/", "d" >> >>, << >>),
      DataSnapshot(<< "c", "3", "x" >>, 2, << "g" >>,
                   << << "/", "e" >> >>, << >>),
      DataSnapshot(<< "d", "4", "x" >>, 0, << "h" >>,
                   << << "/", "d" >> >>, << >>) }

StoredLists ==
    UNION { { s \in [1 .. n -> [sn : StoredPool, loadable : BOOLEAN]] :
                \A i, j \in 1 .. n : i # j => s[i].sn # s[j].sn } :
            n \in 0 .. MaxStored }

ListFilters ==
    { SnapshotFilter(hosts, << >>, << >>, NilString, NilString, limit) :
        hosts \in { << >>, << << "h" >> >> }, limit \in -1 .. MaxStored }

InitList ==
    /\ BoundaryAtRest
    /\ probe \in { [kind |-> "list", stored |-> stored, listErr |-> listErr,
                    filter |-> filter, result |-> NotAsked] :
                   stored \in StoredLists, listErr \in BOOLEAN,
                   filter \in ListFilters }

NextList == Snapshots

SpecList == InitList /\ [][NextList]_vars

\* the snapshots of a successful listing
Listed == probe.result[1].snapshots

ListedOk ==
    probe.kind = "list" /\ probe.result # NotAsked /\ ~probe.result[1].err

\* the position in the storage's order of the snapshot with a short id
StoredAt(id) ==
    CHOOSE k \in DOMAIN probe.stored : Str(probe.stored[k].sn.ID) = id

\* the creation time of a listed snapshot
TimeOf(snapshot) == ParseTime(snapshot.Time).t

\* the stored snapshots that load and match the filter
Matching ==
    { k \in DOMAIN probe.stored :
        /\ probe.stored[k].loadable
        /\ matchesFilter(probe.stored[k].sn, probe.filter) }

\* C12: Snapshots returns the matching snapshots ordered by creation time
\* descending, and snapshots with equal creation time appear in the relative
\* order in which they were loaded from storage.
C12_NewestFirstStable ==
    ListedOk =>
        \A i, j \in DOMAIN Listed :
            i < j =>
                \/ TimeOf(Listed[i]) > TimeOf(Listed[j])
                \/ /\ TimeOf(Listed[i]) = TimeOf(Listed[j])
                   /\ StoredAt(Listed[i].ID) < StoredAt(Listed[j].ID)

Min(a, b) == IF a < b THEN a ELSE b

\* C13: with Limit = L over m matching snapshots, Snapshots returns exactly
\* min(L, m) snapshots when L > 0, the first L of the time-descending order
\* (newest first, none left out being newer than one returned), and all m
\* when L <= 0.
C13_LimitKeepsNewest ==
    ListedOk =>
        LET L == probe.filter.Limit
            m == Cardinality(Matching)
            got == { StoredAt(Listed[i].ID) : i \in DOMAIN Listed }
        IN  /\ Len(Listed) = IF L > 0 THEN Min(L, m) ELSE m
            /\ Cardinality(got) = Len(Listed)
            /\ got \subseteq Matching
            /\ \A i \in DOMAIN Listed :
                  Listed[i] = convertSnapshot(
                                 probe.stored[StoredAt(Listed[i].ID)].sn)
            /\ \A i, j \in DOMAIN Listed :
                  i < j => TimeOf(Listed[i]) >= TimeOf(Listed[j])
            /\ \A k \in Matching \ got, i \in DOMAIN Listed :
                  probe.stored[k].sn.Time <= TimeOf(Listed[i])

\* C13 witness: a limit of two over three matching snapshots returned two,
\* and a snapshot that does not load was left aside.
C13_Witness ==
    /\ ListedOk
    /\ probe.filter.Limit = 2
    /\ Cardinality(Matching) = 3
    /\ Len(Listed) = 2

(***************************************************************************)
(* The library behind the boundary: retention (Forget)                     *)
(***************************************************************************)
\* ForgetPolicy.Empty with its nil test turned round
EmptyWithinInverted(policy) ==
    /\ policy.KeepLast = 0
    /\ policy.KeepHourly = 0
    /\ policy.KeepDaily = 0
    /\ policy.KeepWeekly = 0
    /\ policy.KeepMonthly = 0
    /\ policy.KeepYearly = 0
    /\ ~policy.KeepWithin.nil
    /\ Len(policy.KeepTags) = 0

\* ForgetPolicy.Empty with its counts tested for being positive
EmptyNoPositiveCount(policy) ==
    /\ policy.KeepLast <= 0
    /\ policy.KeepHourly <= 0
    /\ policy.KeepDaily <= 0
    /\ policy.KeepWeekly <= 0
    /\ policy.KeepMonthly <= 0
    /\ policy.KeepYearly <= 0
    /\ policy.KeepWithin.nil
    /\ Len(policy.KeepTags) = 0

\* ForgetPolicy.Empty
Empty(policy) ==
    /\ policy.KeepLast = 0
    /\ policy.KeepHourly = 0
    /\ policy.KeepDaily = 0
    /\ policy.KeepWeekly = 0
    /\ policy.KeepMonthly = 0
    /\ policy.KeepYearly = 0
    /\ policy.KeepWithin.nil
    /\ Len(policy.KeepTags) = 0

\* data.ParseDuration, scaled: one digit and a unit, a day being two hours
ParseDuration(value) ==
    IF Len(value) = 2 /\ IsDigit(value[1]) /\ value[2] \in {"h", "d"}
    THEN [err |-> FALSE,
          d |-> IF value[2] = "h" THEN DigitValue(value[1])
                ELSE 2 * DigitValue(value[1])]
    ELSE [err |-> TRUE, d |-> 0]

\* the key of a retention group: hostname and path set
GroupKey(sn) == << sn.Hostname, Range(sn.Paths) >>

\* data.GroupSnapshots with Host and Path: the snapshots of one key, in the
\* order they were loaded
GroupOf(allSnapshots, key) ==
    SelectSeq(allSnapshots, LAMBDA sn : GroupKey(sn) = key)

GroupKeys(allSnapshots) ==
    { GroupKey(allSnapshots[i]) : i \in DOMAIN allSnapshots }

\* the time of "now" for KeepWithin
Now == 3

\* the length of a bucket of each granularity, in hours
BucketLength ==
    [KeepHourly |-> 1, KeepDaily |-> 2, KeepWeekly |-> 4, KeepMonthly |-> 4,
     KeepYearly |-> 4]

\* the positions of a group newer than position i: later in time, or of the
\* same time and loaded earlier
NewerThan(group, i) ==
    { j \in DOMAIN group :
        \/ group[j].Time > group[i].Time
        \/ group[j].Time = group[i].Time /\ j < i }

\* the KeepLast most recent snapshots
KeptLast(group, n) ==
    { i \in DOMAIN group : Cardinality(NewerThan(group, i)) < n }

\* the most recent snapshot of each of the n most recent buckets
KeptBucket(group, length, n) ==
    LET bucket(i) == group[i].Time \div length
        buckets == { bucket(i) : i \in DOMAIN group }
        recent == { b \in buckets :
                      Cardinality({ c \in buckets : c > b }) < n }
    IN  { i \in DOMAIN group :
            /\ bucket(i) \in recent
            /\ \A j \in NewerThan(group, i) : bucket(j) # bucket(i) }

\* the snapshots whose age is within the duration
KeptWithin(group, within) ==
    { i \in DOMAIN group : within > 0 /\ Now - group[i].Time <= within }

\* Snapshot.HasTags: the snapshot has all the tags of the list; a list that
\* comes to an empty tag on a snapshot without tags is had
RECURSIVE HasTags(_, _)
HasTags(sn, l) ==
    IF l = << >> THEN TRUE
    ELSE IF Head(l) = << >> /\ Len(sn.Tags) = 0 THEN TRUE
    ELSE IF ~TagEqual(sn.Tags, Head(l)) THEN FALSE
    ELSE HasTags(sn, Tail(l))

\* the snapshots that have one of the tag lists
KeptTags(group, tagLists) ==
    { i \in DOMAIN group :
        \E k \in DOMAIN tagLists : HasTags(group[i], tagLists[k]) }

\* data.ApplyPolicy: the keep list and the remove list of a group
ApplyPolicy(group, internalPolicy) ==
    LET kept ==
            KeptLast(group, internalPolicy.Last)
            \cup KeptBucket(group, BucketLength.KeepHourly,
                            internalPolicy.Hourly)
            \cup KeptBucket(group, BucketLength.KeepDaily,
                            internalPolicy.Daily)
            \cup KeptBucket(group, BucketLength.KeepWeekly,
                            internalPolicy.Weekly)
            \cup KeptBucket(group, BucketLength.KeepMonthly,
                            internalPolicy.Monthly)
            \cup KeptBucket(group, BucketLength.KeepYearly,
                            internalPolicy.Yearly)
            \cup KeptWithin(group, internalPolicy.Within)
            \cup KeptTags(group, internalPolicy.Tags)
        at(S) == { group[i] : i \in S }
    IN  [keep |-> SelectSeq(group, LAMBDA sn : sn \in at(kept)),
         remove |-> SelectSeq(group, LAMBDA sn : sn \notin at(kept))]

\* the conversion of the policy to data.ExpirePolicy
InternalPolicy(policy) ==
    [Last |-> policy.KeepLast, Hourly |-> policy.KeepHourly,
     Daily |-> policy.KeepDaily, Weekly |-> policy.KeepWeekly,
     Monthly |-> policy.KeepMonthly, Yearly |-> policy.KeepYearly,
     Tags |-> IF Len(policy.KeepTags) > 0 THEN << policy.KeepTags >>
              ELSE << >>,
     Within |-> IF policy.KeepWithin.nil THEN 0
                ELSE ParseDuration(policy.KeepWithin.val).d]

\* the progress of the removals: what was tried and what was removed
NoRemovals == [tried |-> << >>, removedIDs |-> << >>]

\* the removal loop that gives up at the first failure
RECURSIVE RemoveAllUntilFailure(_, _, _)
RemoveAllUntilFailure(done, remove, failing) ==
    IF remove = << >> THEN done
    ELSE LET id == Head(remove).ID
         IN  IF id \in failing
             THEN [done EXCEPT !.tried = Append(@, id)]
             ELSE RemoveAllUntilFailure(
                     [tried |-> Append(done.tried, id),
                      removedIDs |-> Append(done.removedIDs, id)],
                     Tail(remove), failing)

\* for _, sn := range remove { RemoveUnpacked ... }
RECURSIVE RemoveAll(_, _, _)
RemoveAll(done, remove, failing) ==
    IF remove = << >> THEN done
    ELSE LET id == Head(remove).ID
         IN  RemoveAll(
                [tried |-> Append(done.tried, id),
                 removedIDs |-> IF id \in failing THEN done.removedIDs
                                ELSE Append(done.removedIDs, id)],
                Tail(remove), failing)

\* one group of the loop with its safety check left out
ForgetGroupUnchecked(done, group, policy, failing) ==
    RemoveAll(done, ApplyPolicy(group, InternalPolicy(policy)).remove, failing)

\* one group of the loop: policy applied, safety check, removals
ForgetGroup(done, group, policy, failing) ==
    LET applied == ApplyPolicy(group, InternalPolicy(policy))
    IN  IF Len(applied.keep) = 0 /\ Len(applied.remove) > 0
        THEN done
        ELSE RemoveAll(done, applied.remove, failing)

\* the loop over the groups leaving at the first group that the safety check
\* turns down or in which a removal fails
RECURSIVE ForgetGroupsUntilTrouble(_, _, _, _, _)
ForgetGroupsUntilTrouble(done, keys, allSnapshots, policy, failing) ==
    IF keys = << >> THEN done
    ELSE LET group == GroupOf(allSnapshots, Head(keys))
             applied == ApplyPolicy(group, InternalPolicy(policy))
             after == ForgetGroup(done, group, policy, failing)
         IN  IF \/ Len(applied.keep) = 0 /\ Len(applied.remove) > 0
                \/ Len(after.removedIDs) - Len(done.removedIDs)
                      < Len(applied.remove)
             THEN after
             ELSE ForgetGroupsUntilTrouble(after, Tail(keys), allSnapshots,
                                           policy, failing)

\* for _, group := range groups
RECURSIVE ForgetGroups(_, _, _, _, _)
ForgetGroups(done, keys, allSnapshots, policy, failing) ==
    IF keys = << >> THEN done
    ELSE ForgetGroups(
            ForgetGroup(done, GroupOf(allSnapshots, Head(keys)), policy,
                        failing),
            Tail(keys), allSnapshots, policy, failing)

\* the orders in which a range over the map of groups may visit its keys
KeyOrders(keys) ==
    { o \in [1 .. Cardinality(keys) -> keys] :
        \A i, j \in DOMAIN o : i # j => o[i] # o[j] }

\* the storage operations of one listing
ListLog(stored) ==
    << << "list" >> >> \o [i \in DOMAIN stored |-> << "load", stored[i].sn.ID >>]

RemoveLog(tried) == [i \in DOMAIN tried |-> << "remove", tried[i] >>]

\* no call of Forget yet: every storage is probed with one call
NoForget == [policy |-> "none"]

\* a call of Forget: its inputs, the order in which it went through the
\* groups, its results and its storage operations
ForgetCall(policy, failing, listErr, before, order, err, removedIDs, log) ==
    [policy |-> policy, failing |-> failing, listErr |-> listErr,
     before |-> before, order |-> order, err |-> err,
     removedIDs |-> removedIDs, log |-> log]

\* Forget(ctx, policy) on the probed storage; failing are the snapshots
\* whose removal the storage refuses
Forget(policy, failing, listErr) ==
    /\ probe.kind = "forget"
    /\ probe.last = NoForget
    /\ LET stored == probe.stored
           allSnapshots == LoadAll(stored)
           call(order, err, removedIDs, log) ==
               ForgetCall(policy, failing, listErr, stored, order, err,
                          removedIDs, log)
       IN  IF Empty(policy)
           THEN probe' = [probe EXCEPT !.last = call(<< >>, TRUE, << >>, << >>)]
           ELSE IF listErr
           THEN probe' = [probe EXCEPT
                             !.last = call(<< >>, TRUE, << >>, << << "list" >> >>)]
           ELSE IF /\ GroupKeys(allSnapshots) # {}
                   /\ ~policy.KeepWithin.nil
                   /\ ParseDuration(policy.KeepWithin.val).err
           THEN probe' = [probe EXCEPT
                             !.last = call(<< >>, TRUE, << >>, ListLog(stored))]
           ELSE \E keys \in KeyOrders(GroupKeys(allSnapshots)) :
                   LET done == ForgetGroups(NoRemovals, keys, allSnapshots,
                                            policy, failing)
                   IN  probe' =
                          [probe EXCEPT
                              !.stored =
                                  SelectSeq(stored,
                                      LAMBDA e :
                                          e.sn.ID \notin Range(done.removedIDs)),
                              !.last = call(keys, FALSE, done.removedIDs,
                                            ListLog(stored)
                                                \o RemoveLog(done.tried))]
    /\ UNCHANGED << registryVars, memoryVars, lastCall, crashed, concVars >>

ForgetPolicy(last, hourly, daily, weekly, monthly, yearly, within, tags) ==
    [KeepLast |-> last, KeepHourly |-> hourly, KeepDaily |-> daily,
     KeepWeekly |-> weekly, KeepMonthly |-> monthly, KeepYearly |-> yearly,
     KeepWithin |-> within, KeepTags |-> tags]

Policies ==
    { ForgetPolicy(last, 0, 0, 0, 0, 0, within, tags) :
        last \in 0 .. MaxKeep,
        within \in { NilString, StringPtr(<< "1", "d" >>),
                     StringPtr(<< "d" >>) },
        tags \in { << >>, << << "pin" >> >> } }
    \cup { ForgetPolicy(0, 1, 0, 0, 0, 0, NilString, << >>),
           ForgetPolicy(0, 0, 1, 0, 0, 0, NilString, << >>),
           ForgetPolicy(0, 0, 0, 1, 0, 0, NilString, << >>),
           ForgetPolicy(0, 0, 0, 0, 1, 0, NilString, << >>),
           ForgetPolicy(0, 0, 0, 0, 0, 1, NilString, << << "x" >> >>),
           ForgetPolicy(1, 0, 0, 0, 0, 0, NilString,
                        << << "pin" >>, << "x" >> >>) }

InitForget ==
    /\ BoundaryAtRest
    /\ probe \in { [kind |-> "forget", stored |-> stored, last |-> NoForget] :
                   stored \in StoredLists }

NextForget ==
    \E policy \in Policies, listErr \in BOOLEAN,
       failing \in SUBSET { probe.stored[i].sn.ID : i \in DOMAIN probe.stored } :
        Forget(policy, failing, listErr)

SpecForget == InitForget /\ [][NextForget]_vars

\* a call of Forget has returned
ForgetDone == probe.kind = "forget" /\ probe.last # NoForget

\* the policy with every field zero or absent
ZeroPolicy == ForgetPolicy(0, 0, 0, 0, 0, 0, NilString, << >>)

\* the identifiers of the snapshots of a retention group in a storage
IDsOfGroup(stored, key) ==
    { stored[i].sn.ID : i \in { j \in DOMAIN stored : GroupKey(stored[j].sn) = key } }

\* C14: after a call to Forget with a non-empty policy, whatever removals
\* fail, every retention group (hostname, path set) that had a loadable
\* snapshot before the call still has one; and of a group whose computed keep
\* set is empty no snapshot is removed.
C14_RetentionSafety ==
    (ForgetDone /\ probe.last.policy # ZeroPolicy) =>
        LET before == LoadAll(probe.last.before)
            after == LoadAll(probe.stored)
        IN  \A key \in GroupKeys(before) :
                /\ key \in GroupKeys(after)
                /\ ApplyPolicy(GroupOf(before, key),
                               InternalPolicy(probe.last.policy)).keep = << >>
                      => /\ IDsOfGroup(probe.stored, key)
                               = IDsOfGroup(probe.last.before, key)
                         /\ \A i \in DOMAIN probe.last.log :
                               probe.last.log[i][1] = "remove" =>
                                  probe.last.log[i][2]
                                     \notin IDsOfGroup(probe.last.before, key)

\* C14 witness: the policy kept nothing of one group of two snapshots, which
\* was left whole, while snapshots of another group were removed.
C14_Witness ==
    /\ ForgetDone
    /\ ~probe.last.err
    /\ probe.last.removedIDs # << >>
    /\ \E key \in GroupKeys(LoadAll(probe.last.before)) :
          /\ ApplyPolicy(GroupOf(LoadAll(probe.last.before), key),
                         InternalPolicy(probe.last.policy)).keep = << >>
          /\ IDsOfGroup(probe.stored, key) # {}

\* C15: Forget with an empty policy returns an error without listing,
\* loading or removing a snapshot: the storage is as before and no identifier
\* is returned.
C15_EmptyPolicyRejected ==
    (ForgetDone /\ probe.last.policy = ZeroPolicy) =>
        /\ probe.last.err
        /\ probe.last.log = << >>
        /\ probe.last.removedIDs = << >>
        /\ probe.stored = probe.last.before

\* C15 witness: an empty policy was turned down on a storage of three
\* snapshots.
C15_Witness ==
    /\ ForgetDone
    /\ probe.last.policy = ZeroPolicy
    /\ probe.last.err
    /\ Len(probe.stored) = 3

\* the removal candidates of a call: of every group with a non-empty keep
\* set, the snapshots not in it
Candidates(before, policy) ==
    UNION { LET applied == ApplyPolicy(GroupOf(before, key),
                                       InternalPolicy(policy))
            IN  IF applied.keep = << >> THEN {}
                ELSE { applied.remove[i].ID : i \in DOMAIN applied.remove } :
            key \in GroupKeys(before) }

\* the positions of the log at which the removal of id was tried
TriedAt(log, id) == { i \in DOMAIN log : log[i] = << "remove", id >> }

\* C16: the removal of every candidate is tried exactly once, whether or not
\* earlier removals failed; the returned identifiers are exactly the
\* snapshots whose removal succeeded, which are then gone from the storage;
\* and Forget returns without error.
C16_PartialFailure ==
    ( /\ ForgetDone
      /\ probe.last.policy # ZeroPolicy
      /\ ~probe.last.listErr
      /\ probe.last.policy.KeepWithin.nil
            \/ ~ParseDuration(probe.last.policy.KeepWithin.val).err ) =>
        LET call == probe.last
            candidates == Candidates(LoadAll(call.before), call.policy)
        IN  /\ ~call.err
            /\ \A id \in candidates : Cardinality(TriedAt(call.log, id)) = 1
            /\ \A i \in DOMAIN call.log :
                  call.log[i][1] = "remove" => call.log[i][2] \in candidates
            /\ Range(call.removedIDs) = candidates \ call.failing
            /\ \A i, j \in DOMAIN call.removedIDs :
                  i # j => call.removedIDs[i] # call.removedIDs[j]
            /\ { probe.stored[i].sn.ID : i \in DOMAIN probe.stored }
                  = { call.before[i].sn.ID : i \in DOMAIN call.before }
                       \ Range(call.removedIDs)

\* C16 witness: a removal failed and a removal tried after it succeeded.
C16_Witness ==
    /\ ForgetDone
    /\ ~probe.last.err
    /\ \E i, j \in DOMAIN probe.last.log :
          /\ i < j
          /\ probe.last.log[i][1] = "remove"
          /\ probe.last.log[i][2] \in probe.last.failing
          /\ probe.last.log[j][1] = "remove"
          /\ probe.last.log[j][2] \in Range(probe.last.removedIDs)

(***************************************************************************)
(* The library behind the boundary: Check and the checker's error streams  *)
(***************************************************************************)
CheckDepthDefault == << "default" >>

CheckDepthFull == << "full" >>

CheckDepthReadData == << "read_data" >>

\* the two error streams of a check, in the order Check reads them
Streams == {"packs", "data"}

\* fmt.Sprintf("pack error: %v", err) and fmt.Sprintf("data error: %v", err)
\* for the k-th error of a stream
ErrorText(stream, k) ==
    << IF stream = "packs" THEN "pack error" ELSE "data error", k >>

\* the start of Check with a hint of the index counted as a failure
CheckStartHintsFail ==
    /\ probe.kind = "check"
    /\ probe.pc = "start"
    /\ IF probe.loadErr
       THEN probe' = [probe EXCEPT
                         !.report.Errors = << << "failed to load index" >> >>,
                         !.report.Success = FALSE,
                         !.err = TRUE,
                         !.pc = "returned"]
       ELSE IF probe.indexErrs > 0
       THEN probe' = [probe EXCEPT
                         !.report.Warnings =
                             [i \in 1 .. probe.hints |-> << "hint", i >>],
                         !.report.Errors =
                             [i \in 1 .. probe.indexErrs |-> << "index", i >>],
                         !.report.Success = FALSE,
                         !.err = TRUE,
                         !.pc = "returned"]
       ELSE probe' = [probe EXCEPT
                         !.report.Warnings =
                             [i \in 1 .. probe.hints |-> << "hint", i >>],
                         !.report.Success = probe.hints = 0,
                         !.made.packs = TRUE,
                         !.pc = "packs"]
    /\ UNCHANGED << registryVars, memoryVars, lastCall, crashed, concVars >>

\* Check up to the pack check: the index loaded by the repository and by the
\* checker, hints and errors reported, the pack stream made and its producer
\* started
CheckStart ==
    /\ probe.kind = "check"
    /\ probe.pc = "start"
    /\ IF probe.loadErr
       THEN probe' = [probe EXCEPT
                         !.report.Errors = << << "failed to load index" >> >>,
                         !.report.Success = FALSE,
                         !.err = TRUE,
                         !.pc = "returned"]
       ELSE IF probe.indexErrs > 0
       THEN probe' = [probe EXCEPT
                         !.report.Warnings =
                             [i \in 1 .. probe.hints |-> << "hint", i >>],
                         !.report.Errors =
                             [i \in 1 .. probe.indexErrs |-> << "index", i >>],
                         !.report.Success = FALSE,
                         !.err = TRUE,
                         !.pc = "returned"]
       ELSE probe' = [probe EXCEPT
                         !.report.Warnings =
                             [i \in 1 .. probe.hints |-> << "hint", i >>],
                         !.made.packs = TRUE,
                         !.pc = "packs"]
    /\ UNCHANGED << registryVars, memoryVars, lastCall, crashed, concVars >>

\* the producer (checker.Packs, checker.ReadData) has an error left to send
HasMore(stream) == probe.sent[stream] < probe.toSend[stream]

\* the producer sends its next error; the send blocks while the stream is
\* full
ProducerSend(stream) ==
    /\ probe.kind = "check"
    /\ probe.made[stream]
    /\ ~probe.closed[stream]
    /\ HasMore(stream)
    /\ Len(probe.chan[stream]) < ErrChanCap
    /\ probe' = [probe EXCEPT
                    !.chan[stream] = Append(@, probe.sent[stream] + 1),
                    !.sent[stream] = @ + 1]
    /\ UNCHANGED << registryVars, memoryVars, lastCall, crashed, concVars >>

\* the producer has sent everything and closes the stream
ProducerClose(stream) ==
    /\ probe.kind = "check"
    /\ probe.made[stream]
    /\ ~probe.closed[stream]
    /\ ~HasMore(stream)
    /\ probe' = [probe EXCEPT !.closed[stream] = TRUE]
    /\ UNCHANGED << registryVars, memoryVars, lastCall, crashed, concVars >>

\* the receive that takes one error and then gives the stream up
RangeReceiveOnce(stream) ==
    /\ probe.kind = "check"
    /\ probe.pc = stream
    /\ probe.chan[stream] # << >>
    /\ probe' = [probe EXCEPT
                    !.chan[stream] = Tail(@),
                    !.report.Errors =
                        Append(@, ErrorText(stream, Head(probe.chan[stream]))),
                    !.report.Success = FALSE,
                    !.pc = "returned"]
    /\ UNCHANGED << registryVars, memoryVars, lastCall, crashed, concVars >>

\* for err := range errChan: one error received and reported
RangeReceive(stream) ==
    /\ probe.kind = "check"
    /\ probe.pc = stream
    /\ probe.chan[stream] # << >>
    /\ probe' = [probe EXCEPT
                    !.chan[stream] = Tail(@),
                    !.report.Errors =
                        Append(@, ErrorText(stream, Head(probe.chan[stream]))),
                    !.report.Success = FALSE,
                    !.released =
                        @ \/ (Len(probe.chan[stream]) = ErrChanCap
                                 /\ HasMore(stream))]
    /\ UNCHANGED << registryVars, memoryVars, lastCall, crashed, concVars >>

\* the range ends when the stream is closed and empty; after the pack stream
\* a check of depth read_data makes the data stream and starts its producer,
\* any other check returns
RangeEnd(stream) ==
    /\ probe.kind = "check"
    /\ probe.pc = stream
    /\ probe.chan[stream] = << >>
    /\ probe.closed[stream]
    /\ IF stream = "packs" /\ probe.depth = CheckDepthReadData
       THEN probe' = [probe EXCEPT !.made.data = TRUE, !.pc = "data"]
       ELSE probe' = [probe EXCEPT !.pc = "returned"]
    /\ UNCHANGED << registryVars, memoryVars, lastCall, crashed, concVars >>

NoStreams == [s \in Streams |-> FALSE]

InitCheck ==
    /\ BoundaryAtRest
    /\ probe \in
         { [kind |-> "check", depth |-> depth, loadErr |-> loadErr,
            hints |-> hints, indexErrs |-> indexErrs,
            toSend |-> [packs |-> packErrors, data |-> dataErrors],
            pc |-> "start", made |-> NoStreams, closed |-> NoStreams,
            chan |-> [s \in Streams |-> << >>],
            sent |-> [s \in Streams |-> 0],
            report |-> [Errors |-> << >>, Warnings |-> << >>,
                        Success |-> TRUE],
            err |-> FALSE, released |-> FALSE] :
           depth \in {CheckDepthDefault, CheckDepthFull, CheckDepthReadData},
           loadErr \in BOOLEAN, hints \in 0 .. 1, indexErrs \in 0 .. 1,
           packErrors \in 0 .. MaxErrors, dataErrors \in 0 .. MaxErrors }

Consumer ==
    \/ CheckStart
    \/ \E stream \in Streams : RangeReceive(stream)
    \/ \E stream \in Streams : RangeEnd(stream)

Producer ==
    \/ \E stream \in Streams : ProducerSend(stream)
    \/ \E stream \in Streams : ProducerClose(stream)

NextCheck == Consumer \/ Producer

\* every goroutine that can run does run
SpecCheck ==
    InitCheck /\ [][NextCheck]_vars /\ WF_vars(Consumer) /\ WF_vars(Producer)

\* the producer of a stream waits at a full stream
Blocked(stream) ==
    /\ probe.made[stream]
    /\ ~probe.closed[stream]
    /\ HasMore(stream)
    /\ Len(probe.chan[stream]) = ErrChanCap

\* the errors of the streams a returned check has read, as it reports them
Reported(stream) ==
    SelectSeq(probe.report.Errors,
              LAMBDA e : e[1] = ErrorText(stream, 0)[1])

\* C17: in every interleaving of Check with the producers of its error
\* streams, Check does not return while a stream it made is open, a producer
\* waiting at a full stream gets to send, and every error a producer sent is
\* in the report exactly once.
C17_DrainsUntilClosed ==
    /\ [](probe.pc = "returned" =>
            \A stream \in Streams :
                probe.made[stream] =>
                    /\ probe.closed[stream]
                    /\ probe.chan[stream] = << >>
                    /\ probe.sent[stream] = probe.toSend[stream]
                    /\ Reported(stream) =
                          [k \in 1 .. probe.sent[stream] |->
                              ErrorText(stream, k)])
    /\ \A stream \in Streams : Blocked(stream) ~> ~Blocked(stream)

\* C17 witness: a check of depth read_data returned after both producers had
\* sent more errors than a stream holds, one of them having waited at the
\* full stream.
C17_Witness ==
    /\ probe.kind = "check"
    /\ probe.pc = "returned"
    /\ probe.depth = CheckDepthReadData
    /\ probe.released
    /\ \A stream \in Streams :
          probe.closed[stream] /\ probe.sent[stream] > ErrChanCap

(***************************************************************************)
(* Properties of the two path filters together                             *)
(***************************************************************************)
\* C18: the backup filter and the restore filter decide alike: for every
\* item, include list and exclude list, SelectByName(item) is true exactly
\* when selectFilter(item) returns selected = true.
C18_BackupRestoreAgree ==
    (probe.kind = "filter" /\ probe.restore # NotAsked
        /\ probe.backup # NotAsked)
        => (probe.backup[1] <=> probe.restore[1])

\* C20 as stated: for every item that matches an exclude pattern, whatever
\* the include list, the restore filter returns selected = false and
\* descendIntoChildren = false.
C20_ExcludeAlwaysPrunes ==
    (probe.kind = "filter" /\ probe.restore # NotAsked
        /\ MatchesAny(probe.excludes, probe.item))
        => probe.restore = << FALSE, FALSE >>

\* C20 amended: for every item that matches an exclude pattern, whatever the
\* include list, the restore filter returns selected = false; it returns
\* descendIntoChildren = false unless the include list is not empty and the
\* item matches none of its patterns, and then descendIntoChildren = true.
C20_ExcludePrunesPastInclude ==
    (probe.kind = "filter" /\ probe.restore # NotAsked
        /\ MatchesAny(probe.excludes, probe.item))
        => /\ probe.restore[1] = FALSE
           /\ probe.restore[2] =
                 (probe.includes # << >>
                     /\ ~MatchesAny(probe.includes, probe.item))

\* C20 witness: an item that matches an include pattern, and an exclude
\* pattern by its full path only, was pruned.
C20_Witness ==
    /\ probe.kind = "filter"
    /\ probe.restore = << FALSE, FALSE >>
    /\ probe.includes # << >>
    /\ MatchesAny(probe.includes, probe.item)
    /\ \E i \in DOMAIN probe.excludes : Match(probe.excludes[i], probe.item)
    /\ \A i \in DOMAIN probe.excludes :
          ~Match(probe.excludes[i], Base(probe.item))

(***************************************************************************)
(* The tree walks of Restore and Backup under their filters                *)
(***************************************************************************)
\* the entries below the walked root, parents before children
TreeNodes ==
    << << "d", "/", "a" >>, << "d", "/", "b" >>,
       << "d", "/", "b", "/", "a" >>, << "d", "/", "b", "/", "d" >> >>

TreeRoot == << "d" >>

\* the entries directly below a directory, in the order they are walked
Children(dir) ==
    SelectSeq(TreeNodes,
              LAMBDA n : /\ Len(n) = Len(dir) + 2
                         /\ SubSeq(n, 1, Len(dir)) = dir
                         /\ n[Len(dir) + 1] = Separator)

\* the directories above an entry, below the root
Ancestors(node) ==
    { a \in Range(TreeNodes) : Len(a) < Len(node)
                                 /\ SubSeq(node, 1, Len(a)) = a
                                 /\ node[Len(a) + 1] = Separator }

\* one entry visited: the filter is asked, the entry is taken if selected,
\* and its children are queued if they may be
Visit(selected, descend) ==
    LET node == Head(probe.todo)
    IN  probe' = [probe EXCEPT
                     !.visited = @ \cup {node},
                     !.selected = IF selected THEN @ \cup {node} ELSE @,
                     !.todo = IF descend THEN Children(node) \o Tail(@)
                              ELSE Tail(@)]

\* the restorer asks SelectFilter for the next entry
RestoreVisit ==
    /\ probe.kind = "walk"
    /\ probe.mode = "restore"
    /\ probe.todo # << >>
    /\ LET answer == selectFilter(Head(probe.todo), probe.includes,
                                  probe.excludes)
       IN  Visit(answer[1], answer[2])
    /\ UNCHANGED << registryVars, memoryVars, lastCall, crashed, concVars >>

\* the archiver asks SelectByName for the next entry: an entry it returns
\* false for is ignored, and not walked if it is a directory
ArchiveVisit ==
    /\ probe.kind = "walk"
    /\ probe.mode = "backup"
    /\ probe.todo # << >>
    /\ LET answer == SelectByName(Head(probe.todo), probe.includes,
                                  probe.excludes)
       IN  Visit(answer, answer)
    /\ UNCHANGED << registryVars, memoryVars, lastCall, crashed, concVars >>

InitWalk ==
    /\ BoundaryAtRest
    /\ probe \in { [kind |-> "walk", mode |-> mode, includes |-> inc,
                    excludes |-> exc, todo |-> Children(TreeRoot),
                    visited |-> {}, selected |-> {}] :
                   mode \in {"backup", "restore"}, inc \in PatternLists,
                   exc \in PatternLists }

NextWalk == RestoreVisit \/ ArchiveVisit

SpecWalk == InitWalk /\ [][NextWalk]_vars

\* the entry matches one of the patterns the way the filter of the walk
\* matches: Restore by full path or last element, Backup by last element
MatchesInWalk(patterns, node) ==
    IF probe.mode = "restore" THEN MatchesAny(patterns, node)
    ELSE \E i \in DOMAIN patterns : Match(patterns[i], Base(node))

\* C19: in a backup or restore walk with a non-empty include list, a
\* directory that matches no include pattern is skipped itself but its
\* children are visited, so that an entry that matches an include pattern,
\* with no exclude pattern matching it or a directory above it, is selected.
C19_IncludeNeverForecloses ==
    (probe.kind = "walk" /\ probe.todo = << >> /\ probe.includes # << >>) =>
        /\ \A dir \in probe.visited :
              ~MatchesInWalk(probe.includes, dir) =>
                  /\ dir \notin probe.selected
                  /\ Range(Children(dir)) \subseteq probe.visited
        /\ \A node \in Range(TreeNodes) :
              ( /\ MatchesInWalk(probe.includes, node)
                /\ \A a \in Ancestors(node) \cup {node} :
                      ~MatchesInWalk(probe.excludes, a) )
                  => node \in probe.selected

(***************************************************************************)
(* Since and Until values that do not parse, in matchesFilter and in       *)
(* Snapshots                                                               *)
(***************************************************************************)
InitBounds ==
    /\ BoundaryAtRest
    /\ \/ probe \in { [kind |-> "match", sn |-> sn,
                       filter |-> SnapshotFilter(hosts, << >>, << >>, since,
                                                 until, 0),
                       matches |-> NotAsked] :
                      sn \in MatchSnapshots, hosts \in HostFilters,
                      since \in TimeFilters, until \in TimeFilters }
       \/ probe \in { [kind |-> "list", stored |-> stored,
                       listErr |-> listErr,
                       filter |-> SnapshotFilter(<< >>, << >>, << >>, since,
                                                 until, 0),
                       result |-> NotAsked] :
                      stored \in StoredLists, listErr \in BOOLEAN,
                      since \in TimeFilters, until \in TimeFilters }

NextBounds == MatchSnapshot \/ Snapshots

SpecBounds == InitBounds /\ [][NextBounds]_vars

\* a value that is present and is no timestamp
Malformed(value) == ~value.nil /\ ~NamesInstant(value)

\* the filter with its malformed since and until unset
WithoutMalformed(filter) ==
    [filter EXCEPT
        !.Since = IF Malformed(@) THEN NilString ELSE @,
        !.Until = IF Malformed(@) THEN NilString ELSE @]

\* C21: a Since or Until that does not parse is treated as absent:
\* matchesFilter gives for every snapshot the answer it gives with the value
\* unset, and Snapshots returns no error on its account and lists what it
\* lists with the value unset.
C21_MalformedBoundAbsent ==
    /\ (probe.kind = "match" /\ probe.matches # NotAsked) =>
          probe.matches[1] =
              matchesFilter(probe.sn, WithoutMalformed(probe.filter))
    /\ (probe.kind = "list" /\ probe.result # NotAsked /\ ~probe.listErr) =>
          /\ ~probe.result[1].err
          /\ probe.result[1].snapshots \in
                { ConvertAll(ApplyLimit(sorted, probe.filter.Limit)) :
                    sorted \in SortSlice(FilterAll(LoadAll(probe.stored),
                                   WithoutMalformed(probe.filter))) }

\* C21 witness: a snapshot was accepted by a filter with a host list, a since
\* that does not parse and an until that names an instant.
C21_Witness ==
    /\ probe.kind = "match"
    /\ probe.matches = << TRUE >>
    /\ Malformed(probe.filter.Since)
    /\ NamesInstant(probe.filter.Until)
    /\ probe.filter.Hosts # << >>

(***************************************************************************)
(* Snapshots that do not load, in Snapshots and in Forget                  *)
(***************************************************************************)
InitLoad ==
    /\ BoundaryAtRest
    /\ \/ probe \in { [kind |-> "list", stored |-> stored,
                       listErr |-> listErr,
                       filter |-> SnapshotFilter(hosts, << >>, << >>,
                                                 NilString, NilString, 0),
                       result |-> NotAsked] :
                      stored \in StoredLists, listErr \in BOOLEAN,
                      hosts \in { << >>, << << "h" >> >> } }
       \/ probe \in { [kind |-> "forget", stored |-> stored,
                       last |-> NoForget] : stored \in StoredLists }

NextLoad == Snapshots \/ NextForget

SpecLoad == InitLoad /\ [][NextLoad]_vars

\* the snapshots of the entries of a storage that load, in its order
Loaded(stored) ==
    LET entries == SelectSeq(stored, LAMBDA e : e.loadable)
    IN  [i \in DOMAIN entries |-> entries[i].sn]

\* the identifiers of the entries of a storage that do not load
Unloadable(stored) ==
    { stored[i].sn.ID : i \in { j \in DOMAIN stored : ~stored[j].loadable } }

\* C22: a snapshot that does not load is not fatal.  Snapshots and Forget
\* go on with the other identifiers, return no error on its account and work
\* on exactly the snapshots that loaded; a failure of the listing itself
\* makes either return an error, nothing listed and nothing removed.
C22_LoadFailureSkipped ==
    /\ (probe.kind = "list" /\ probe.result # NotAsked) =>
          /\ probe.result[1].err <=> probe.listErr
          /\ probe.listErr => probe.result[1].snapshots = << >>
          /\ ~probe.listErr =>
                { probe.result[1].snapshots[i] :
                     i \in DOMAIN probe.result[1].snapshots }
                   = { convertSnapshot(sn) :
                         sn \in { s \in Range(Loaded(probe.stored)) :
                                    HostsHold(s, probe.filter) } }
    /\ (ForgetDone /\ probe.last.policy # ZeroPolicy) =>
          LET call == probe.last
              tried == { call.log[i][2] :
                           i \in { j \in DOMAIN call.log :
                                     call.log[j][1] = "remove" } }
          IN  /\ call.listErr =>
                    /\ call.err
                    /\ tried = {}
                    /\ call.removedIDs = << >>
                    /\ probe.stored = call.before
              /\ ( /\ ~call.listErr
                   /\ call.policy.KeepWithin.nil
                         \/ ~ParseDuration(call.policy.KeepWithin.val).err ) =>
                    /\ ~call.err
                    /\ \A i \in DOMAIN call.before :
                          << "load", call.before[i].sn.ID >> \in Range(call.log)
                    /\ tried = Candidates(Loaded(call.before), call.policy)
                    /\ Unloadable(call.before) \subseteq
                          { probe.stored[i].sn.ID : i \in DOMAIN probe.stored }

\* C22 witness: Forget met a snapshot that did not load, went on and removed
\* a snapshot listed after it.
C22_Witness ==
    /\ ForgetDone
    /\ ~probe.last.err
    /\ \E i, j \in DOMAIN probe.last.before :
          /\ i < j
          /\ ~probe.last.before[i].loadable
          /\ probe.last.before[j].sn.ID \in Range(probe.last.removedIDs)

(***************************************************************************)
(* ForgetPolicy.Empty on its own                                           *)
(***************************************************************************)
\* policy.Empty() for the probed policy
PolicyEmpty ==
    /\ probe.kind = "empty"
    /\ probe.empty = NotAsked
    /\ probe' = [probe EXCEPT !.empty = << Empty(probe.policy) >>]
    /\ UNCHANGED << registryVars, memoryVars, lastCall, crashed, concVars >>

\* the counts of a policy: Go ints, the negative ones too
Counts == -1 .. MaxKeep

InitEmpty ==
    /\ BoundaryAtRest
    /\ probe \in { [kind |-> "empty",
                    policy |-> ForgetPolicy(last, hourly, daily, weekly,
                                            monthly, yearly, within, tags),
                    empty |-> NotAsked] :
                   last \in Counts, hourly \in Counts, daily \in Counts,
                   weekly \in Counts, monthly \in Counts, yearly \in Counts,
                   within \in { NilString, StringPtr(<< >>),
                                StringPtr(<< "1", "d" >>) },
                   tags \in { << >>, << << "pin" >> >> } }

NextEmpty == PolicyEmpty

SpecEmpty == InitEmpty /\ [][NextEmpty]_vars

\* the count fields of a policy
CountFields ==
    {"KeepLast", "KeepHourly", "KeepDaily", "KeepWeekly", "KeepMonthly",
     "KeepYearly"}

\* C23: ForgetPolicy.Empty() is true exactly when the six counts are all 0,
\* KeepWithin is absent and KeepTags has no element: one count that is not 0,
\* a negative one too, a KeepWithin that is present, the empty string too, or
\* one keep tag makes it false.
C23_EmptyExact ==
    (probe.kind = "empty" /\ probe.empty # NotAsked) =>
        /\ probe.empty[1] <=>
              /\ \A f \in CountFields : probe.policy[f] = 0
              /\ probe.policy.KeepWithin.nil
              /\ probe.policy.KeepTags = << >>
        /\ (\E f \in CountFields : probe.policy[f] < 0) => ~probe.empty[1]
        /\ probe.policy.KeepWithin = StringPtr(<< >>) => ~probe.empty[1]

\* C23 witness: a policy whose only rule is a negative count was found not
\* empty.
C23_Witness ==
    /\ probe.kind = "empty"
    /\ probe.empty = << FALSE >>
    /\ probe.policy.KeepDaily = -1
    /\ \A f \in CountFields \ {"KeepDaily"} : probe.policy[f] = 0
    /\ probe.policy.KeepWithin.nil
    /\ probe.policy.KeepTags = << >>

\* the stored snapshots of a call that load and carry one of the keep tags
Pinned(call) ==
    { call.before[i].sn.ID :
        i \in { j \in DOMAIN call.before :
                  /\ call.before[j].loadable
                  /\ Range(call.before[j].sn.Tags)
                        \cap Range(call.policy.KeepTags) # {} } }

\* C24: Forget never removes a snapshot whose tags intersect the policy's
\* KeepTags: with one keep tag or more, a snapshot that carries one of them
\* or more is in the keep set of its group, so that its removal is not tried
\* and it is in the storage after the call.
C24_KeepTagsNeverRemoved ==
    (ForgetDone /\ probe.last.policy.KeepTags # << >>) =>
        \A id \in Pinned(probe.last) :
            /\ TriedAt(probe.last.log, id) = {}
            /\ id \notin Range(probe.last.removedIDs)
            /\ id \in { probe.stored[i].sn.ID : i \in DOMAIN probe.stored }

\* the removal candidates among the snapshots of one group, taken alone
CandidatesAlone(call, key) ==
    Candidates(SelectSeq(Loaded(call.before),
                         LAMBDA sn : GroupKey(sn) = key),
               call.policy)

\* C25: retention groups are evaluated independently: of a group keyed by
\* (hostname, path set), Forget tries to remove what the policy makes of
\* that group's snapshots alone and removes it but for the failed removals,
\* whatever the other groups are, whether the safety check skipped one of
\* them and whether a removal failed in one of them.
C25_GroupsIndependent ==
    (ForgetDone /\ ~probe.last.err) =>
        LET call == probe.last
        IN  \A key \in { GroupKey(call.before[i].sn) : i \in DOMAIN call.before } :
                LET ids == IDsOfGroup(call.before, key)
                    alone == CandidatesAlone(call, key)
                IN  /\ { id \in ids : TriedAt(call.log, id) # {} } = alone
                    /\ Range(call.removedIDs) \cap ids = alone \ call.failing
                    /\ IDsOfGroup(probe.stored, key)
                          = ids \ (alone \ call.failing)

\* C25 witness: the safety check skipped the first group of the loop, and a
\* snapshot of the group processed after it was removed.
C25_Witness ==
    /\ ForgetDone
    /\ ~probe.last.err
    /\ Len(probe.last.order) = 2
    /\ CandidatesAlone(probe.last, probe.last.order[1]) = {}
    /\ IDsOfGroup(probe.last.before, probe.last.order[1])
          \cap { probe.last.before[i].sn.ID :
                   i \in { j \in DOMAIN probe.last.before :
                             probe.last.before[j].loadable } } # {}
    /\ ApplyPolicy(GroupOf(Loaded(probe.last.before), probe.last.order[1]),
                   InternalPolicy(probe.last.policy)).keep = << >>
    /\ Range(probe.last.removedIDs)
          \cap IDsOfGroup(probe.last.before, probe.last.order[2]) # {}

(***************************************************************************)
(* restic_close driven by two callers at once: the steps of a call are the *)
(* lookup in the map, the Close of the session and the delete from the map *)
(***************************************************************************)
\* the caller enters restic_close(repo_id)
CloseBegin(c, repo_id) ==
    /\ ~crashed
    /\ callers[c].pc = "idle"
    /\ callers' = [callers EXCEPT
          ![c] = [IdleCaller EXCEPT !.pc = "lookup", !.op = "close",
                                    !.repoID = repo_id]]
    /\ UNCHANGED << registryVars, mapWriting, crashed, seqVars >>

\* repo, exists := repositories[ResticRepo(repo_id)]: the runtime ends the
\* process when it finds a write of the map under way
CloseLookup(c) ==
    /\ ~crashed
    /\ callers[c].pc = "lookup"
    /\ LET key == ToResticRepo(callers[c].repoID)
       IN  IF mapWriting
           THEN /\ crashed' = TRUE
                /\ UNCHANGED callers
           ELSE /\ UNCHANGED crashed
                /\ IF key \notin DOMAIN repositories
                   THEN callers' = [callers EXCEPT
                           ![c].ret = RESTIC_ERROR_INVALID_PARAMS,
                           ![c].pc = "done"]
                   ELSE callers' = [callers EXCEPT
                           ![c].repo = repositories[key],
                           ![c].pc = "closing"]
    /\ UNCHANGED << registryVars, mapWriting, seqVars >>

\* repo.Close()
CloseSession(c) ==
    /\ ~crashed
    /\ callers[c].pc = "closing"
    /\ sessions' = [sessions EXCEPT ![callers[c].repo].closes = @ + 1]
    /\ callers' = [callers EXCEPT ![c].pc = "delete"]
    /\ UNCHANGED << nextRepoID, repositories, issued, closedHandles,
                    mapWriting, crashed, seqVars >>

\* delete(repositories, ResticRepo(repo_id)): the map write starts
CloseDeleteBegin(c) ==
    /\ ~crashed
    /\ callers[c].pc = "delete"
    /\ IF mapWriting
       THEN /\ crashed' = TRUE
            /\ UNCHANGED << callers, mapWriting >>
       ELSE /\ mapWriting' = TRUE
            /\ callers' = [callers EXCEPT ![c].pc = "deleting"]
            /\ UNCHANGED crashed
    /\ UNCHANGED << registryVars, seqVars >>

\* delete(repositories, ResticRepo(repo_id)): the entry is gone
CloseDeleteEnd(c) ==
    /\ ~crashed
    /\ callers[c].pc = "deleting"
    /\ repositories' = MapDelete(repositories,
                                 ToResticRepo(callers[c].repoID))
    /\ mapWriting' = FALSE
    /\ callers' = [callers EXCEPT ![c].pc = "return"]
    /\ UNCHANGED << nextRepoID, sessions, issued, closedHandles, crashed,
                    seqVars >>

\* return RESTIC_OK
CloseReturn(c) ==
    /\ ~crashed
    /\ callers[c].pc = "return"
    /\ closedHandles' = closedHandles \cup {callers[c].repoID}
    /\ callers' = [callers EXCEPT ![c].ret = RESTIC_OK, ![c].ok = TRUE,
                                  ![c].pc = "done"]
    /\ UNCHANGED << nextRepoID, repositories, sessions, issued, mapWriting,
                    crashed, seqVars >>

\* every handle the counter can have given out is live
InitClose ==
    /\ nextRepoID = MaxRepoID + 1
    /\ repositories = [k \in 1 .. MaxRepoID |-> k]
    /\ sessions = [k \in 1 .. MaxRepoID |-> [closes |-> 0]]
    /\ issued = [k \in 1 .. MaxRepoID |-> k]
    /\ closedHandles = {}
    /\ heap = [a \in 1 .. HeapSize |-> FreeBlock]
    /\ held = {}
    /\ lastCall = NoCall
    /\ crashed = FALSE
    /\ callers = [c \in Callers |-> IdleCaller]
    /\ mapWriting = FALSE
    /\ probe = NoProbe

NextClose ==
    \/ \E c \in Callers, repo_id \in 0 .. MaxRepoID : CloseBegin(c, repo_id)
    \/ \E c \in Callers : CloseLookup(c)
    \/ \E c \in Callers : CloseSession(c)
    \/ \E c \in Callers : CloseDeleteBegin(c)
    \/ \E c \in Callers : CloseDeleteEnd(c)
    \/ \E c \in Callers : CloseReturn(c)

SpecClose == InitClose /\ [][NextClose]_vars

\* C26: when two callers run restic_close on the same live handle at the
\* same time, in any interleaving of lookup, session close and map delete,
\* the calls return, exactly one RESTIC_OK and the other
\* RESTIC_ERROR_INVALID_PARAMS, and the session was closed exactly once.
C26_ConcurrentCloseOnce ==
    \A c \in Callers, d \in Callers :
        ( /\ c # d
          /\ callers[c].op = "close" /\ callers[d].op = "close"
          /\ callers[c].repoID = callers[d].repoID
          /\ callers[c].repoID \in 1 .. MaxRepoID )
        => /\ ~crashed
           /\ sessions[callers[c].repoID].closes <= 1
           /\ (callers[c].pc = "done" /\ callers[d].pc = "done") =>
                 /\ { callers[c].ret, callers[d].ret }
                       = { RESTIC_OK, RESTIC_ERROR_INVALID_PARAMS }
                 /\ sessions[callers[c].repoID].closes = 1

(***************************************************************************)
(* Properties of the argument decoding of restic_backup                    *)
(***************************************************************************)
\* a char** argument with a null element among its count elements
NullElement(arr) ==
    ~arr.null /\ \E i \in 1 .. arr.count : arr.elems[i].null

\* C27: restic_backup decodes its arrays strictly: it returns
\* RESTIC_ERROR_INVALID_PARAMS and starts no backup when paths is null or
\* paths_count <= 0, when tags is null while tags_count > 0, and when an
\* element pointer of paths or of tags is null.
C27_BackupDecodesStrictly ==
    [][ \A h \in HandleArgs, paths \in PathsArgs, tags \in TagsArgs,
           nulls \in SUBSET {"snapshot_id_out"}, ok \in BOOLEAN :
           ( /\ restic_backup(h, paths, tags, nulls, ok)
             /\ \/ paths.null
                \/ paths.count <= 0
                \/ tags.null /\ tags.count > 0
                \/ NullElement(paths)
                \/ NullElement(tags) )
           => /\ lastCall'.ret = RESTIC_ERROR_INVALID_PARAMS
              /\ ~lastCall'.fault
              /\ lastCall'.session = 0
              /\ lastCall'.arg = << >> ]_vars

(***************************************************************************)
(* Properties of failed restic_init and restic_open calls                  *)
(***************************************************************************)
\* C28: a restic_init or restic_open that fails, on a null repo_url, backend
\* or password or in the library's Init or Open, returns a negative error
\* code, adds no entry to the registry and leaves the handle counter as it
\* was; so a successful call returns the handle that follows the handles of
\* the successful calls before it, however many calls failed in between.
C28_FailedOpenLeavesNoTrace ==
    [][ lastCall'.op \in {"init", "open"} =>
           IF issued' = issued
           THEN /\ lastCall'.ret < 0
                /\ lastCall'.ret \in ErrorCodes
                /\ repositories' = repositories
                /\ sessions' = sessions
                /\ nextRepoID' = nextRepoID
           ELSE /\ issued' = Append(issued, lastCall'.ret)
                /\ lastCall'.ret = ToCInt(Len(issued) + 1)
                /\ nextRepoID = Len(issued) + 1 ]_vars

\* C28 witness: after one successful call, an Init of the library failed and
\* the counter still stands at the second handle.
C28_Witness ==
    /\ lastCall.op = "init"
    /\ lastCall.ret = RESTIC_ERROR_REPO_NOT_FOUND
    /\ Len(issued) = 1
    /\ nextRepoID = 2
    /\ DOMAIN repositories = {1}

(***************************************************************************)
(* Properties of the report of Check                                       *)
(***************************************************************************)
\* the errors a check with the probed inputs meets on its way
ErrorsMet ==
    IF probe.loadErr THEN 1
    ELSE IF probe.indexErrs > 0 THEN probe.indexErrs
    ELSE probe.toSend.packs
            + IF probe.depth = CheckDepthReadData THEN probe.toSend.data
              ELSE 0

\* C29: on every return path of Check, report.Success is true exactly when
\* report.Errors is empty: hints of the index go to Warnings and never clear
\* Success, and an index-load error, an index-check error, a pack error and
\* a data error each clear Success and add exactly one entry to Errors.
C29_SuccessIffNoErrors ==
    probe.kind = "check" =>
        /\ probe.report.Success <=> probe.report.Errors = << >>
        /\ probe.pc = "returned" =>
              /\ Len(probe.report.Errors) = ErrorsMet
              /\ probe.report.Success <=> ErrorsMet = 0
              /\ probe.loadErr \/ Len(probe.report.Warnings) = probe.hints
              /\ probe.err <=> (probe.loadErr \/ probe.indexErrs > 0)

\* C29 witness: a check of depth read_data with a hint, a pack error and a
\* data error returned a report with one warning, two errors and no success.
C29_Witness ==
    /\ probe.kind = "check"
    /\ probe.pc = "returned"
    /\ probe.depth = CheckDepthReadData
    /\ Len(probe.report.Warnings) = 1
    /\ Len(probe.report.Errors) = 2
    /\ probe.toSend = [packs |-> 1, data |-> 1]
    /\ ~probe.report.Success

(***************************************************************************)
(* The library behind the boundary: Init, Open and Close of a repository   *)
(* and the backend they hold                                               *)
(***************************************************************************)
\* the schemes of the probed repository URLs: two the switch of
\* createBackend and openBackend knows, and one it does not
Schemes == {"local", "s3", "rclone"}

\* createBackend and openBackend: no backend for a scheme the switch does
\* not know or when the backend's constructor fails
createBackend(scheme, fails) ==
    IF scheme \notin {"local", "s3", "azure", "gs", "b2", "sftp", "swift",
                      "rest"}
    THEN [err |-> TRUE, created |-> 0]
    ELSE IF "backend" \in fails
    THEN [err |-> TRUE, created |-> 0]
    ELSE [err |-> FALSE, created |-> 1]

\* the outcome of Init or Open: the error, the backends made, the calls of
\* the backend's Close
Outcome(op, err, created, closes) ==
    [op |-> op, err |-> err, created |-> created, closes |-> closes]

\* Open with the backend left open when the key search fails
OpenLeavesBackend(cfg) ==
    IF cfg.Password.nil \/ Len(cfg.Password.val) = 0
    THEN Outcome("Open", TRUE, 0, 0)
    ELSE LET be == createBackend(cfg.scheme, cfg.fails)
         IN  IF be.err
             THEN Outcome("Open", TRUE, 0, 0)
             ELSE IF "new" \in cfg.fails
             THEN Outcome("Open", TRUE, be.created, 1)
             ELSE IF "key" \in cfg.fails
             THEN Outcome("Open", TRUE, be.created, 0)
             ELSE Outcome("Open", FALSE, be.created, 0)

\* Open(ctx, cfg)
Open(cfg) ==
    IF cfg.Password.nil \/ Len(cfg.Password.val) = 0
    THEN Outcome("Open", TRUE, 0, 0)
    ELSE LET be == createBackend(cfg.scheme, cfg.fails)
         IN  IF be.err
             THEN Outcome("Open", TRUE, 0, 0)
             ELSE IF "new" \in cfg.fails
             THEN Outcome("Open", TRUE, be.created, 1)
             ELSE IF "key" \in cfg.fails
             THEN Outcome("Open", TRUE, be.created, 1)
             ELSE Outcome("Open", FALSE, be.created, 0)

\* Init(ctx, cfg), named apart from the initial predicate
InitRepository(cfg) ==
    IF cfg.Password.nil \/ Len(cfg.Password.val) = 0
    THEN Outcome("Init", TRUE, 0, 0)
    ELSE LET be == createBackend(cfg.scheme, cfg.fails)
         IN  IF be.err
             THEN Outcome("Init", TRUE, 0, 0)
             ELSE IF "new" \in cfg.fails
             THEN Outcome("Init", TRUE, be.created, 1)
             ELSE IF "key" \in cfg.fails
             THEN Outcome("Init", TRUE, be.created, 1)
             ELSE Outcome("Init", FALSE, be.created, 0)

NoOutcome == Outcome("none", FALSE, 0, 0)

\* a call of Init on the probed configuration
CallInit ==
    /\ probe.kind = "open"
    /\ probe.outcome = NoOutcome
    /\ probe' = [probe EXCEPT !.outcome = InitRepository(probe.cfg)]
    /\ UNCHANGED << registryVars, memoryVars, lastCall, crashed, concVars >>

\* a call of Open on the probed configuration
CallOpen ==
    /\ probe.kind = "open"
    /\ probe.outcome = NoOutcome
    /\ probe' = [probe EXCEPT !.outcome = Open(probe.cfg)]
    /\ UNCHANGED << registryVars, memoryVars, lastCall, crashed, concVars >>

\* Close of the Repository a call returned: r.repo.Close(), which closes the
\* backend
Close ==
    /\ probe.kind = "open"
    /\ probe.outcome # NoOutcome
    /\ ~probe.outcome.err
    /\ ~probe.closed
    /\ probe' = [probe EXCEPT !.closed = TRUE, !.outcome.closes = @ + 1]
    /\ UNCHANGED << registryVars, memoryVars, lastCall, crashed, concVars >>

InitOpen ==
    /\ BoundaryAtRest
    /\ probe \in { [kind |-> "open",
                    cfg |-> [Password |-> password, scheme |-> scheme,
                             fails |-> fails],
                    outcome |-> NoOutcome, closed |-> FALSE] :
                   password \in { NilString, StringPtr(<< >>),
                                  StringPtr(<< "p" >>) },
                   scheme \in Schemes,
                   fails \in SUBSET {"backend", "new", "key"} }

NextOpen == CallInit \/ CallOpen \/ Close

SpecOpen == InitOpen /\ [][NextOpen]_vars

\* the first step of Init or Open that fails on a configuration, if any:
\* the password, the backend, the repository wrapper, the key
FirstFailure(cfg) ==
    IF cfg.Password.nil \/ cfg.Password.val = << >> THEN "password"
    ELSE IF cfg.scheme = "rclone" \/ "backend" \in cfg.fails THEN "backend"
    ELSE IF "new" \in cfg.fails THEN "new"
    ELSE IF "key" \in cfg.fails THEN "key"
    ELSE "none"

\* C30: Init and Open release the backend on failure: when the repository
\* wrapper cannot be made, or the repository not initialised, or the key not
\* found, the backend that was made is closed exactly once before the error
\* is returned; after a success the backend stays open until Close of the
\* returned Repository; and an empty password fails before a backend is
\* made.
C30_BackendReleasedOnFailure ==
    (probe.kind = "open" /\ probe.outcome # NoOutcome) =>
        LET out == probe.outcome
            failure == FirstFailure(probe.cfg)
        IN  /\ out.err <=> failure # "none"
            /\ failure \in {"password", "backend"} =>
                  out.created = 0 /\ out.closes = 0
            /\ failure \in {"new", "key"} =>
                  out.created = 1 /\ out.closes = 1
            /\ failure = "none" =>
                  /\ out.created = 1
                  /\ out.closes = IF probe.closed THEN 1 ELSE 0

\* C30 witness: Open made a backend and a repository wrapper, failed to find
\* the key and returned its error with the backend closed.
C30_Witness ==
    /\ probe.kind = "open"
    /\ probe.outcome = Outcome("Open", TRUE, 1, 1)
    /\ probe.cfg.fails = {"key"}

=============================================================================
